---- MODULE Spec2Model ----
(***************************************************************************)
(* Model of ruff-linter-odoo: the Linter (linter.py), the checker base     *)
(* class and registry (visitor.py), the Config policy (config.py) and the  *)
(* Odoo rules (checkers/odoo_checkers.py).                                 *)
(*                                                                         *)
(* Representation.                                                         *)
(*  - A Python str on which the code does substring / suffix / split work  *)
(*    (file names, author, version, dotted module paths) is a sequence of  *)
(*    tokens; "x in y" is contiguous-subsequence containment and           *)
(*    endswith is a suffix test on the tokens.  Identifiers and codes, on  *)
(*    which the code only tests equality, are TLA+ strings.                *)
(*  - A Python value produced by the literal evaluator is a record         *)
(*    [t, s, n, keys, items]; t is the Python type.  A dict keeps its keys *)
(*    and values as two parallel sequences in insertion order.             *)
(*  - An AST node is a record [kind, s, q, v, haspos, line, col, a, b]:    *)
(*    s an identifier (id, attr, name), q a tokenised string (module       *)
(*    path), v the value of a Constant, a and b the child lists in the     *)
(*    order generic_visit walks them.                                      *)
(*  - Diagnostic.message is a fixed text per code, with the key or method  *)
(*    name the f-string embeds; end_line / end_column are left out.        *)
(***************************************************************************)
EXTENDS Integers, Sequences, FiniteSets, TLC

(***************************************************************************)
(* Python values                                                           *)
(***************************************************************************)
PyNone == [t |-> "none", s |-> <<>>, n |-> 0, keys |-> <<>>, items |-> <<>>]

PyStr(q) == [t |-> "str", s |-> q, n |-> 0, keys |-> <<>>, items |-> <<>>]

PyInt(i) == [t |-> "int", s |-> <<>>, n |-> i, keys |-> <<>>, items |-> <<>>]

PyBool(b) == [t |-> "bool", s |-> <<>>, n |-> IF b THEN 1 ELSE 0, keys |-> <<>>, items |-> <<>>]

PyList(xs) == [t |-> "list", s |-> <<>>, n |-> 0, keys |-> <<>>, items |-> xs]

PyDict(ks, vs) == [t |-> "dict", s |-> <<>>, n |-> 0, keys |-> ks, items |-> vs]

\* the outcome of an evaluation that raised TypeError
PyTypeError == [t |-> "TypeError", s |-> <<>>, n |-> 0, keys |-> <<>>, items |-> <<>>]

\* bool(value)
Truthy(v) ==
  CASE v.t = "none" -> FALSE
    [] v.t = "str" -> v.s # <<>>
    [] v.t = "int" -> v.n # 0
    [] v.t = "bool" -> v.n = 1
    [] v.t = "list" -> v.items # <<>>
    [] v.t = "dict" -> v.keys # <<>>
    [] OTHER -> FALSE

\* hash(value) is defined
Hashable(v) == v.t \notin {"list", "dict"}

\* value == other, as dict lookup and "in" use it (True == 1, False == 0)
PyEq(x, y) ==
  IF x.t \in {"int", "bool"} /\ y.t \in {"int", "bool"} THEN x.n = y.n ELSE x = y

IsStr(v) == v.t = "str"

\* "needle in haystack" for two str
Contains(hay, needle) ==
  \E i \in 0..(Len(hay) - Len(needle)) :
    \A j \in 1..Len(needle) : hay[i + j] = needle[j]

\* haystack.endswith(suffix)
EndsWith(hay, suffix) ==
  /\ Len(suffix) <= Len(hay)
  /\ \A j \in 1..Len(suffix) : hay[Len(hay) - Len(suffix) + j] = suffix[j]

\* index of key in a dict's key list, 0 when absent
KeyIndex(d, k) ==
  LET hits == {i \in 1..Len(d.keys) : PyEq(d.keys[i], k)}
  IN IF hits = {} THEN 0 ELSE CHOOSE i \in hits : TRUE

\* key in dict
HasKey(d, k) == KeyIndex(d, k) # 0

\* dict.get(key)
DictGet(d, k) == IF HasKey(d, k) THEN d.items[KeyIndex(d, k)] ELSE PyNone

\* dict[key] = value
DictSet(d, k, v) ==
  IF HasKey(d, k)
  THEN PyDict(d.keys, [d.items EXCEPT ![KeyIndex(d, k)] = v])
  ELSE PyDict(Append(d.keys, k), Append(d.items, v))

(***************************************************************************)
(* AST nodes                                                               *)
(***************************************************************************)
Node(kind, s, q, v, a, b, line, col) ==
  [kind |-> kind, s |-> s, q |-> q, v |-> v, haspos |-> TRUE,
   line |-> line, col |-> col, a |-> a, b |-> b]

\* a node without lineno / col_offset (Module, alias)
NodeNoPos(kind, s, a) ==
  [kind |-> kind, s |-> s, q |-> <<>>, v |-> PyNone, haspos |-> FALSE,
   line |-> 0, col |-> 0, a |-> a, b |-> <<>>]

Module(body) == NodeNoPos("Module", "", body)

Name(id, l, c) == Node("Name", id, <<>>, PyNone, <<>>, <<>>, l, c)

Constant(v, l, c) == Node("Constant", "", <<>>, v, <<>>, <<>>, l, c)

Attribute(value, attr, l, c) == Node("Attribute", attr, <<>>, PyNone, <<value>>, <<>>, l, c)

Call(func, args, l, c) == Node("Call", "", <<>>, PyNone, <<func>>, args, l, c)

BinOp(left, right, l, c) == Node("BinOp", "", <<>>, PyNone, <<left, right>>, <<>>, l, c)

JoinedStr(values, l, c) == Node("JoinedStr", "", <<>>, PyNone, values, <<>>, l, c)

List(elts, l, c) == Node("List", "", <<>>, PyNone, elts, <<>>, l, c)

Dict(keys, values, l, c) == Node("Dict", "", <<>>, PyNone, keys, values, l, c)

\* the None that ast.Dict.keys holds for a "**mapping" entry
NoKey == NodeNoPos("None", "", <<>>)

Expr(value, l, c) == Node("Expr", "", <<>>, PyNone, <<value>>, <<>>, l, c)

Assign(targets, value, l, c) == Node("Assign", "", <<>>, PyNone, targets, <<value>>, l, c)

AnnAssign(target, value, l, c) == Node("AnnAssign", "", <<>>, PyNone, <<target, value>>, <<>>, l, c)

Pass(l, c) == Node("Pass", "", <<>>, PyNone, <<>>, <<>>, l, c)

Return(value, l, c) == Node("Return", "", <<>>, PyNone, <<value>>, <<>>, l, c)

\* name is tokenised (startswith is applied to it); a = body, b = decorator_list
FunctionDef(name, body, decorators, l, c) == Node("FunctionDef", "", name, PyNone, body, decorators, l, c)

\* async def: the same fields, a kind no rule has a callback for
AsyncFunctionDef(name, body, decorators, l, c) ==
  Node("AsyncFunctionDef", "", name, PyNone, body, decorators, l, c)

ClassDef(name, body, l, c) == Node("ClassDef", name, <<>>, PyNone, body, <<>>, l, c)

Alias(name) == NodeNoPos("alias", name, <<>>)

ImportFrom(module, names, l, c) == Node("ImportFrom", "", module, PyNone, names, <<>>, l, c)

\* the children generic_visit iterates over, in field order
Children(node) == SelectSeq(node.a \o node.b, LAMBDA ch : ch.kind # "None")

(***************************************************************************)
(* Config (config.py)                                                      *)
(***************************************************************************)
S(tok) == <<tok>>

DefaultRequiredAuthors == << <<"Odoo Community Association (OCA)">> >>

DefaultLicenseAllowed ==
  << S("AGPL-3"), S("LGPL-3"), S("GPL-2"), <<"GPL-2", " or any later version">>,
     S("GPL-3"), <<"GPL-3", " or any later version">> >>

DefaultDevelopmentStatusAllowed ==
  << S("Alpha"), S("Beta"), S("Production/Stable"), S("Mature") >>

\* the default of Config.exclude; a pattern is cut where a path is cut, so
\* that "venv" is found in ".venv"
DefaultExclude ==
  << <<".", "git">>, <<".", "tox">>, <<".", "venv">>, S("venv"), S("__pycache__"),
     <<"*", ".egg-info">>, S("build"), S("dist") >>

\* Config(enable=..., disable=...); a list of codes is used for membership
\* and emptiness only and is kept as a set
MkConfig(enable, disable, authors) ==
  [output_format |-> "text",
   enable |-> enable, disable |-> disable,
   manifest_required_authors |-> authors,
   license_allowed |-> DefaultLicenseAllowed,
   development_status_allowed |-> DefaultDevelopmentStatusAllowed,
   exclude |-> DefaultExclude]

IsCheckEnabledDisableIgnored(cfg, check_code) ==
  \/ (cfg.enable # {} /\ check_code \in cfg.enable)
  \/ (cfg.enable = {} /\ check_code \notin cfg.disable)

IsCheckEnabled(cfg, check_code) ==
  IF cfg.enable # {} /\ check_code \notin cfg.enable THEN FALSE
  ELSE IF check_code \in cfg.disable THEN FALSE
  ELSE TRUE

(***************************************************************************)
(* BaseChecker.add_diagnostic (visitor.py)                                 *)
(***************************************************************************)
Diagnostic(code, message, filename, line, column, level) ==
  [code |-> code, message |-> message, filename |-> filename,
   line |-> line, column |-> column, level |-> level]

NodeLineZeroFallback(node) == IF node.haspos THEN node.line ELSE 0

\* node.lineno if hasattr(node, "lineno") else 1
NodeLine(node) == IF node.haspos THEN node.line ELSE 1

\* node.col_offset if hasattr(node, "col_offset") else 0
NodeColumn(node) == IF node.haspos THEN node.col ELSE 0

\* the diagnostics add_diagnostic appends: none when the code is suppressed
AddDiagnostic(cfg, filename, code, message, node, level) ==
  IF ~IsCheckEnabled(cfg, code) THEN <<>>
  ELSE << Diagnostic(code, message, filename, NodeLine(node), NodeColumn(node), level) >>

(***************************************************************************)
(* The code rules (checkers/odoo_checkers.py)                              *)
(***************************************************************************)
CursorNames == {"cr", "cursor", "_cr"}

\* PrintChecker.visit_Call, before generic_visit
PrintCheckerVisitCall(cfg, fn, node) ==
  LET func == node.a[1]
  IN IF func.kind = "Name" /\ func.s = "print"
     THEN AddDiagnostic(cfg, fn, "OCA001", <<"Print used. Use logger instead.">>, node, "warning")
     ELSE <<>>

\* a commit rule that looks at the last name of the receiver only
CommitCheckerVisitCallAnyReceiver(cfg, fn, node) ==
  LET func == node.a[1]
  IN IF /\ func.kind = "Attribute"
        /\ func.s = "commit"
        /\ func.a[1].s \in CursorNames
     THEN AddDiagnostic(cfg, fn, "OCA002", <<"Use of cr.commit() directly">>, node, "error")
     ELSE <<>>

\* CommitChecker.visit_Call, before generic_visit
CommitCheckerVisitCall(cfg, fn, node) ==
  LET func == node.a[1]
  IN IF /\ func.kind = "Attribute"
        /\ func.s = "commit"
        /\ func.a[1].kind = "Name"
        /\ func.a[1].s \in CursorNames
     THEN AddDiagnostic(cfg, fn, "OCA002", <<"Use of cr.commit() directly">>, node, "error")
     ELSE <<>>

\* a test that takes every call for a .format() call
HasStringFormattingAnyCall(node) ==
  node.kind \in {"BinOp", "JoinedStr", "Call"}

\* SQLInjectionChecker._has_string_formatting
HasStringFormatting(node) ==
  IF node.kind \in {"BinOp", "JoinedStr"} THEN TRUE
  ELSE IF node.kind = "Call"
       THEN node.a[1].kind = "Attribute" /\ node.a[1].s = "format"
       ELSE FALSE

\* SQLInjectionChecker.visit_Call, before generic_visit
SQLInjectionCheckerVisitCall(cfg, fn, node) ==
  LET func == node.a[1]
  IN IF /\ func.kind = "Attribute"
        /\ func.s = "execute"
        /\ func.a[1].kind = "Name"
        /\ func.a[1].s \in CursorNames
        /\ node.b # <<>>
        /\ HasStringFormatting(node.b[1])
     THEN AddDiagnostic(cfg, fn, "OCA003", <<"SQL injection risk. Use parameters if you can.">>, node, "error")
     ELSE <<>>

\* ImportChecker._is_same_module
IsSameModule(fn, module_name) == Contains(fn, <<module_name>>)

RECURSIVE WarningAliases(_, _, _, _)
\* the loop over node.names of ImportChecker.visit_ImportFrom, from alias i on
WarningAliases(cfg, fn, node, i) ==
  IF i > Len(node.a) THEN <<>>
  ELSE (IF node.a[i].s = "Warning"
        THEN AddDiagnostic(cfg, fn, "OCA005",
               <<"odoo.exceptions.Warning is a deprecated alias to odoo.exceptions.UserError">>,
               node, "refactor")
        ELSE <<>>) \o WarningAliases(cfg, fn, node, i + 1)

\* ImportChecker.visit_ImportFrom, before generic_visit; node.q is
\* node.module split at the dots (empty for a module of None)
ImportCheckerVisitImportFrom(cfg, fn, node) ==
  LET parts == node.q
  IN IF parts = <<>> THEN <<>>
     ELSE (IF /\ Contains(parts, <<"odoo", "addons">>)
              /\ Len(parts) >= 3 /\ parts[1] = "odoo" /\ parts[2] = "addons"
              /\ IsSameModule(fn, parts[3])
           THEN AddDiagnostic(cfg, fn, "OCA004",
                  <<"Same Odoo module absolute import. You should use relative import", parts[3]>>,
                  node, "warning")
           ELSE <<>>)
          \o (IF parts = <<"odoo", "exceptions">> THEN WarningAliases(cfg, fn, node, 1) ELSE <<>>)

\* MethodChecker._get_name
GetName(node) == IF node.kind = "Name" THEN node.s ELSE ""

\* MethodChecker._get_decorator_name; <<>> is None
GetDecoratorName(decorator) ==
  IF decorator.kind = "Name" THEN <<decorator.s>>
  ELSE IF decorator.kind = "Attribute" THEN <<GetName(decorator.a[1]), ".", decorator.s>>
  ELSE IF decorator.kind = "Call" /\ decorator.a[1].kind = "Attribute"
       THEN <<GetName(decorator.a[1].a[1]), ".", decorator.a[1].s>>
  ELSE <<>>

RECURSIVE HasSuperCall(_)
\* the ast.walk loop of _check_method_super: some node of the subtree is a
\* call of the bare name super
HasSuperCall(node) ==
  \/ (node.kind = "Call" /\ node.a[1].kind = "Name" /\ node.a[1].s = "super")
  \/ \E i \in 1..Len(Children(node)) : HasSuperCall(Children(node)[i])

\* an emptiness test that lets any run of pass and constant statements count
IsEmptyMethodAllTrivial(node) ==
  \A k \in 1..Len(node.a) :
    \/ node.a[k].kind = "Pass"
    \/ (node.a[k].kind = "Expr" /\ node.a[k].a[1].kind = "Constant")

\* MethodChecker._is_empty_method
IsEmptyMethod(node) ==
  IF Len(node.a) = 1
  THEN \/ node.a[1].kind = "Pass"
       \/ (node.a[1].kind = "Expr" /\ node.a[1].a[1].kind = "Constant")
  ELSE FALSE

SuperMethods == {<<"create">>, <<"write">>, <<"copy">>, <<"unlink">>}

\* MethodChecker._check_method_super
CheckMethodSuper(cfg, fn, node) ==
  IF node.q \in SuperMethods /\ ~HasSuperCall(node) /\ ~IsEmptyMethod(node)
  THEN AddDiagnostic(cfg, fn, "OCA007", <<"Missing super call in method">> \o node.q, node, "warning")
  ELSE <<>>

RECURSIVE ComputeDecorators(_, _, _, _)
\* the loop over node.decorator_list of MethodChecker.visit_FunctionDef
ComputeDecorators(cfg, fn, node, i) ==
  IF i > Len(node.b) THEN <<>>
  ELSE (IF /\ GetDecoratorName(node.b[i]) = <<"api", ".", "depends">>
           /\ ~(node.q # <<>> /\ node.q[1] = "_compute_")
        THEN AddDiagnostic(cfg, fn, "OCA006",
               <<"Name of compute method should start with _compute_">>, node, "convention")
        ELSE <<>>) \o ComputeDecorators(cfg, fn, node, i + 1)

\* MethodChecker.visit_FunctionDef, before generic_visit
MethodCheckerVisitFunctionDef(cfg, fn, node) ==
  ComputeDecorators(cfg, fn, node, 1) \o CheckMethodSuper(cfg, fn, node)

\* TranslationChecker.visit_Call, before generic_visit
TranslationCheckerVisitCall(cfg, fn, node) ==
  LET func == node.a[1]
  IN IF func.kind = "Name" /\ func.s = "_" /\ node.b # <<>> /\ node.b[1].kind = "JoinedStr"
     THEN AddDiagnostic(cfg, fn, "OCA008",
            <<"Use lazy % or .format() or % formatting in odoo._ functions">>, node, "warning")
     ELSE <<>>

\* NodeVisitor.visit: the visit_<kind> method the class defines, if any
Callback(cls, cfg, fn, node) ==
  CASE cls = "PrintChecker" /\ node.kind = "Call" -> PrintCheckerVisitCall(cfg, fn, node)
    [] cls = "CommitChecker" /\ node.kind = "Call" -> CommitCheckerVisitCall(cfg, fn, node)
    [] cls = "SQLInjectionChecker" /\ node.kind = "Call" -> SQLInjectionCheckerVisitCall(cfg, fn, node)
    [] cls = "ImportChecker" /\ node.kind = "ImportFrom" -> ImportCheckerVisitImportFrom(cfg, fn, node)
    [] cls = "MethodChecker" /\ node.kind = "FunctionDef" -> MethodCheckerVisitFunctionDef(cfg, fn, node)
    [] cls = "TranslationChecker" /\ node.kind = "Call" -> TranslationCheckerVisitCall(cfg, fn, node)
    [] OTHER -> <<>>

RECURSIVE Visit(_, _, _, _), GenericVisit(_, _, _, _, _)
\* a visit whose visit_Call does not go on into the call's children
VisitStopsAtCall(cls, cfg, fn, node) ==
  Callback(cls, cfg, fn, node)
    \o (IF node.kind = "Call" THEN <<>> ELSE GenericVisit(cls, cfg, fn, Children(node), 1))

\* checker.visit(node) for the six code rules: the callback, then
\* generic_visit over the children
Visit(cls, cfg, fn, node) ==
  Callback(cls, cfg, fn, node) \o GenericVisit(cls, cfg, fn, Children(node), 1)

\* NodeVisitor.generic_visit, from child i on
GenericVisit(cls, cfg, fn, children, i) ==
  IF i > Len(children) THEN <<>>
  ELSE Visit(cls, cfg, fn, children[i]) \o GenericVisit(cls, cfg, fn, children, i + 1)

(***************************************************************************)
(* ManifestChecker: the literal evaluator                                  *)
(***************************************************************************)
RECURSIVE GetConstantValue(_), GetConstantList(_, _), DictToPython(_), DictToPythonFrom(_, _, _)

\* a list comprehension that drops the elements that are not literals
GetConstantValueDropsUnknown(node) ==
  IF node.kind = "Constant" THEN node.v
  ELSE IF node.kind = "List"
       THEN GetConstantList(SelectSeq(node.a, LAMBDA e : e.kind \in {"Constant", "List", "Dict"}), 1)
  ELSE IF node.kind = "Dict" THEN DictToPython(node)
  ELSE PyNone

\* ManifestChecker._get_constant_value; ast.Str is an alias of ast.Constant
GetConstantValue(node) ==
  IF node.kind = "Constant" THEN node.v
  ELSE IF node.kind = "List" THEN GetConstantList(node.a, 1)
  ELSE IF node.kind = "Dict" THEN DictToPython(node)
  ELSE PyNone

\* [self._get_constant_value(elt) for elt in node.elts], from element i on:
\* the list of the values, or PyTypeError when an element raised
GetConstantList(elts, i) ==
  IF i > Len(elts) THEN PyList(<<>>)
  ELSE LET head == GetConstantValue(elts[i])
           rest == GetConstantList(elts, i + 1)
       IN IF head = PyTypeError \/ rest = PyTypeError THEN PyTypeError
          ELSE PyList(<<head>> \o rest.items)

\* the loop of ManifestChecker._dict_to_python over zip(node.keys,
\* node.values), from entry i on; result[key_name] = ... evaluates the value
\* first and raises TypeError for a key_name that cannot be hashed
DictToPythonFrom(node, i, result) ==
  IF i > Len(node.a) THEN result
  ELSE IF node.a[i].kind = "None" THEN DictToPythonFrom(node, i + 1, result)
  ELSE LET key_name == GetConstantValue(node.a[i])
       IN IF key_name = PyTypeError THEN PyTypeError
          ELSE IF ~Truthy(key_name) THEN DictToPythonFrom(node, i + 1, result)
          ELSE LET value == GetConstantValue(node.b[i])
               IN IF value = PyTypeError THEN PyTypeError
                  ELSE IF ~Hashable(key_name) THEN PyTypeError
                  ELSE DictToPythonFrom(node, i + 1, DictSet(result, key_name, value))

\* ManifestChecker._dict_to_python
DictToPython(node) == DictToPythonFrom(node, 1, PyDict(<<>>, <<>>))

\* the inner loop of _extract_manifest_dict: some target is a Name and the
\* assigned value is a Dict
AssignsDictToName(item) ==
  \E j \in 1..Len(item.a) : item.a[j].kind = "Name" /\ item.b[1].kind = "Dict"

RECURSIVE ExtractManifestDictFrom(_, _)
ExtractManifestDictLast(body, i) ==
  IF i > Len(body) THEN PyNone
  ELSE LET later == ExtractManifestDictFrom(body, i + 1)
       IN IF later # PyNone THEN later
          ELSE IF body[i].kind = "Assign" /\ AssignsDictToName(body[i])
               THEN DictToPython(body[i].b[1])
          ELSE IF body[i].kind = "Expr" /\ body[i].a[1].kind = "Dict"
               THEN DictToPython(body[i].a[1])
          ELSE PyNone

\* the loop of ManifestChecker._extract_manifest_dict over node.body, from
\* statement i on; PyNone is the None it returns at the end
ExtractManifestDictFrom(body, i) ==
  IF i > Len(body) THEN PyNone
  ELSE IF body[i].kind = "Assign"
       THEN IF AssignsDictToName(body[i]) THEN DictToPython(body[i].b[1])
            ELSE ExtractManifestDictFrom(body, i + 1)
  ELSE IF body[i].kind = "Expr" /\ body[i].a[1].kind = "Dict"
       THEN DictToPython(body[i].a[1])
  ELSE ExtractManifestDictFrom(body, i + 1)

\* ManifestChecker._extract_manifest_dict
ExtractManifestDict(node) == ExtractManifestDictFrom(node.a, 1)

(***************************************************************************)
(* ManifestChecker: the checks                                             *)
(***************************************************************************)
\* a list of required keys that leaves author out
RequiredKeysWithoutAuthor == <<"name", "version", "license">>

RequiredKeys == <<"name", "version", "author", "license">>

RECURSIVE CheckRequiredKeysFrom(_, _, _, _, _)
\* the loop of ManifestChecker._check_required_keys, from key i on
CheckRequiredKeysFrom(cfg, fn, manifest, node, i) ==
  IF i > Len(RequiredKeys) THEN <<>>
  ELSE (IF ~HasKey(manifest, PyStr(S(RequiredKeys[i])))
        THEN AddDiagnostic(cfg, fn, "OCA009",
               <<"Missing required key in manifest file", RequiredKeys[i]>>, node, "convention")
        ELSE <<>>) \o CheckRequiredKeysFrom(cfg, fn, manifest, node, i + 1)

\* ManifestChecker._check_required_keys
CheckRequiredKeys(cfg, fn, manifest, node) == CheckRequiredKeysFrom(cfg, fn, manifest, node, 1)

\* value in a list of str
InStrList(v, strs) == \E i \in 1..Len(strs) : v = PyStr(strs[i])

\* ManifestChecker._check_license
CheckLicense(cfg, fn, manifest, node) ==
  LET license_value == DictGet(manifest, PyStr(S("license")))
  IN IF Truthy(license_value) /\ ~InStrList(license_value, cfg.license_allowed)
     THEN AddDiagnostic(cfg, fn, "OCA010", <<"License not allowed in manifest file.">>, node, "convention")
     ELSE <<>>

VersionMajors ==
  {"4.2", "5.0", "6.0", "6.1", "7.0", "8.0", "9.0", "10.0", "11.0", "12.0", "13.0",
   "14.0", "15.0", "16.0", "17.0", "18.0", "19.0"}

\* the tokens that match \d+
DigitTokens == {"0", "1", "2", "10"}

\* re.match(pattern, str(version)): str() of a value that is not a str
\* starts with no major version; $ also matches before a final newline
VersionMatches(version) ==
  /\ IsStr(version)
  /\ LET q == IF version.s # <<>> /\ version.s[Len(version.s)] = "\n"
              THEN SubSeq(version.s, 1, Len(version.s) - 1) ELSE version.s
     IN /\ Len(q) = 7
        /\ q[1] \in VersionMajors
        /\ q[2] = "." /\ q[4] = "." /\ q[6] = "."
        /\ q[3] \in DigitTokens /\ q[5] \in DigitTokens /\ q[7] \in DigitTokens

\* ManifestChecker._check_version_format
CheckVersionFormat(cfg, fn, manifest, node) ==
  LET version == DictGet(manifest, PyStr(S("version")))
  IN IF Truthy(version) /\ ~VersionMatches(version)
     THEN AddDiagnostic(cfg, fn, "OCA011", <<"Wrong Version Format in manifest file.">>, node, "convention")
     ELSE <<>>

\* the loop over manifest_required_authors: it emits for the first required
\* author the string lacks and breaks
SomeRequiredAuthorMissing(cfg, author) ==
  \E i \in 1..Len(cfg.manifest_required_authors) :
    ~Contains(author.s, cfg.manifest_required_authors[i])

\* a return taken only when OCA012 was actually emitted
CheckAuthorReturnIfEmitted(cfg, fn, manifest, node) ==
  LET author == DictGet(manifest, PyStr(S("author")))
      typed == IF Truthy(author) /\ ~IsStr(author)
               THEN AddDiagnostic(cfg, fn, "OCA012",
                      <<"The author key in the manifest file must be a string">>, node, "error")
               ELSE <<>>
  IN IF typed # <<>> THEN typed
     ELSE IF Truthy(author) /\ (~IsStr(author) \/ SomeRequiredAuthorMissing(cfg, author))
     THEN AddDiagnostic(cfg, fn, "OCA013",
            <<"One of the following authors must be present in manifest">>, node, "convention")
     ELSE <<>>

\* ManifestChecker._check_author
CheckAuthor(cfg, fn, manifest, node) ==
  LET author == DictGet(manifest, PyStr(S("author")))
  IN IF Truthy(author) /\ ~IsStr(author)
     THEN AddDiagnostic(cfg, fn, "OCA012",
            <<"The author key in the manifest file must be a string">>, node, "error")
     ELSE IF Truthy(author) /\ SomeRequiredAuthorMissing(cfg, author)
     THEN AddDiagnostic(cfg, fn, "OCA013",
            <<"One of the following authors must be present in manifest">>, node, "convention")
     ELSE <<>>

\* ManifestChecker._check_development_status
CheckDevelopmentStatus(cfg, fn, manifest, node) ==
  LET dev_status == DictGet(manifest, PyStr(S("development_status")))
  IN IF Truthy(dev_status) /\ ~InStrList(dev_status, cfg.development_status_allowed)
     THEN AddDiagnostic(cfg, fn, "OCA014",
            <<"Manifest key development_status not allowed.">>, node, "convention")
     ELSE <<>>

\* ManifestChecker.visit_Module once manifest_dict is a dict: the five
\* checks, then generic_visit (the class has no other callback)
ManifestChecks(cfg, fn, manifest, node) ==
  CheckRequiredKeys(cfg, fn, manifest, node)
    \o CheckLicense(cfg, fn, manifest, node)
    \o CheckVersionFormat(cfg, fn, manifest, node)
    \o CheckAuthor(cfg, fn, manifest, node)
    \o CheckDevelopmentStatus(cfg, fn, manifest, node)
    \o GenericVisit("ManifestChecker", cfg, fn, Children(node), 1)

(***************************************************************************)
(* The inputs: source files as the parser delivers them                    *)
(***************************************************************************)
\* a string constant, a non-literal name and a call, as manifest entries
Lit(v) == Constant(v, 2, 4)

Key(tok) == Lit(PyStr(S(tok)))

Str(tok) == Lit(PyStr(S(tok)))

OcaAuthor == PyStr(<<"Acme, ", "Odoo Community Association (OCA)">>)

GoodVersion == PyStr(<<"16.0", ".", "1", ".", "0", ".", "0">>)

ManifestStmt(keys, values) == Expr(Dict(keys, values, 1, 0), 1, 0)

\* print("a") / def f(): print("b")
SrcPrint ==
  << Expr(Call(Name("print", 1, 0), <<Str("a")>>, 1, 0), 1, 0),
     FunctionDef(<<"f">>, <<Expr(Call(Name("print", 3, 4), <<Str("b")>>, 3, 4), 3, 4)>>, <<>>, 2, 0) >>

\* def m(): cr.commit(); print(cr.execute(f"..."), print()); cr.execute(q);
\* self.env.cr.commit(); cursor.execute("..." % x); _cr.execute("..".format(t))
SrcCursor ==
  << FunctionDef(<<"m">>,
       << Expr(Call(Attribute(Name("cr", 2, 4), "commit", 2, 4), <<>>, 2, 4), 2, 4),
          Expr(Call(Name("print", 3, 4),
                 << Call(Attribute(Name("cr", 3, 10), "execute", 3, 10),
                      <<JoinedStr(<<Str("SELECT"), Name("t", 3, 30)>>, 3, 21)>>, 3, 10),
                    Call(Name("print", 3, 40), <<>>, 3, 40) >>, 3, 4), 3, 4),
          Expr(Call(Attribute(Name("cr", 4, 4), "execute", 4, 4), <<Name("q", 4, 15)>>, 4, 4), 4, 4),
          Expr(Call(Attribute(Attribute(Attribute(Name("self", 5, 4), "env", 5, 4), "cr", 5, 4),
                 "commit", 5, 4), <<>>, 5, 4), 5, 4),
          Expr(Call(Attribute(Name("cursor", 6, 4), "execute", 6, 4),
                 <<BinOp(Str("SELECT %s"), Name("x", 6, 30), 6, 19)>>, 6, 4), 6, 4),
          Expr(Call(Attribute(Name("_cr", 7, 4), "execute", 7, 4),
                 <<Call(Attribute(Str("SELECT {}"), "format", 7, 16), <<Name("t", 7, 35)>>, 7, 16)>>,
                 7, 4), 7, 4) >>, <<>>, 1, 0) >>

\* from odoo.addons.sale.models import x; from odoo.exceptions import
\* Warning, UserError; from . import y; from odoo.addons.stock import z
SrcImport ==
  << ImportFrom(<<"odoo", "addons", "sale", "models">>, <<Alias("x")>>, 1, 0),
     ImportFrom(<<"odoo", "exceptions">>, <<Alias("Warning"), Alias("UserError")>>, 2, 0),
     ImportFrom(<<>>, <<Alias("y")>>, 3, 0),
     ImportFrom(<<"odoo", "addons", "stock">>, <<Alias("z")>>, 4, 0) >>

\* class Sale: create without super, write with super, copy that is pass,
\* unlink that is docstring + pass, a mis-named compute method, _(f"...")
SrcMethod ==
  << ClassDef("Sale",
       << FunctionDef(<<"create">>, <<Return(Name("vals", 3, 15), 3, 8)>>, <<>>, 2, 4),
          FunctionDef(<<"write">>,
            <<Return(Call(Attribute(Call(Name("super", 5, 15), <<>>, 5, 15), "write", 5, 15),
                       <<Name("vals", 5, 29)>>, 5, 15), 5, 8)>>, <<>>, 4, 4),
          FunctionDef(<<"copy">>, <<Pass(7, 8)>>, <<>>, 6, 4),
          FunctionDef(<<"unlink">>, <<Expr(Str("doc"), 9, 8), Pass(10, 8)>>, <<>>, 8, 4),
          FunctionDef(<<"total">>,
            <<Expr(Call(Name("_", 13, 8), <<JoinedStr(<<Str("n")>>, 13, 10)>>, 13, 8), 13, 8)>>,
            <<Call(Attribute(Name("api", 11, 5), "depends", 11, 5), <<Str("x")>>, 11, 5)>>, 12, 4),
          FunctionDef(<<"_compute_", "total">>, <<Pass(16, 8)>>,
            <<Attribute(Name("api", 14, 5), "depends", 14, 5)>>, 15, 4) >>, 1, 0) >>

\* cr.commit() on line 1, print() on line 2
SrcCommitThenPrint ==
  << Expr(Call(Attribute(Name("cr", 1, 0), "commit", 1, 0), <<>>, 1, 0), 1, 0),
     Expr(Call(Name("print", 2, 0), <<>>, 2, 0), 2, 0) >>

\* cr.execute(); cr.execute("SELECT 1"); cr.execute(build());
\* db.execute(f"..."); cr.execute(q, f"..."); self.cr.execute("..." % b);
\* cr.execute(fmt.format(t)); db.commit(); commit(); self.cr.commit()
SrcSql ==
  << Expr(Call(Attribute(Name("cr", 1, 0), "execute", 1, 0), <<>>, 1, 0), 1, 0),
     Expr(Call(Attribute(Name("cr", 2, 0), "execute", 2, 0), <<Str("SELECT 1")>>, 2, 0), 2, 0),
     Expr(Call(Attribute(Name("cr", 3, 0), "execute", 3, 0),
            <<Call(Name("build", 3, 11), <<>>, 3, 11)>>, 3, 0), 3, 0),
     Expr(Call(Attribute(Name("db", 4, 0), "execute", 4, 0),
            <<JoinedStr(<<Str("SELECT"), Name("t", 4, 20)>>, 4, 11)>>, 4, 0), 4, 0),
     Expr(Call(Attribute(Name("cr", 5, 0), "execute", 5, 0),
            <<Name("q", 5, 11), JoinedStr(<<Name("t", 5, 17)>>, 5, 14)>>, 5, 0), 5, 0),
     Expr(Call(Attribute(Attribute(Name("self", 6, 0), "cr", 6, 0), "execute", 6, 0),
            <<BinOp(Str("SELECT %s"), Name("b", 6, 30), 6, 16)>>, 6, 0), 6, 0),
     Expr(Call(Attribute(Name("cr", 7, 0), "execute", 7, 0),
            <<Call(Attribute(Name("fmt", 7, 11), "format", 7, 11), <<Name("t", 7, 22)>>, 7, 11)>>,
            7, 0), 7, 0),
     Expr(Call(Attribute(Name("db", 8, 0), "commit", 8, 0), <<>>, 8, 0), 8, 0),
     Expr(Call(Name("commit", 9, 0), <<>>, 9, 0), 9, 0),
     Expr(Call(Attribute(Attribute(Name("self", 10, 0), "cr", 10, 0), "commit", 10, 0),
            <<>>, 10, 0), 10, 0) >>

\* class Sale: create whose only super() is an argument of its decorator,
\* write whose super() is inside a nested function, copy that is a docstring
\* only, unlink that calls self.super(), a create nested in a helper, an
\* unlink whose body is the list display [1], an async def write, a write
\* that names super without calling it
SrcSuper ==
  << ClassDef("Sale",
       << FunctionDef(<<"create">>, <<Return(Name("vals", 3, 15), 3, 8)>>,
            <<Call(Name("wrap", 2, 5), <<Call(Name("super", 2, 10), <<>>, 2, 10)>>, 2, 5)>>, 3, 4),
          FunctionDef(<<"write">>,
            << FunctionDef(<<"inner">>,
                 <<Return(Call(Attribute(Call(Name("super", 6, 19), <<>>, 6, 19), "write", 6, 19),
                            <<Name("vals", 6, 33)>>, 6, 19), 6, 12)>>, <<>>, 5, 8),
               Return(Call(Name("inner", 7, 15), <<>>, 7, 15), 7, 8) >>, <<>>, 4, 4),
          FunctionDef(<<"copy">>, <<Expr(Str("doc"), 9, 8)>>, <<>>, 8, 4),
          FunctionDef(<<"unlink">>,
            <<Return(Call(Attribute(Name("self", 11, 15), "super", 11, 15), <<>>, 11, 15), 11, 8)>>,
            <<>>, 10, 4),
          FunctionDef(<<"helper">>,
            << FunctionDef(<<"create">>, <<Return(Name("vals", 14, 19), 14, 12)>>, <<>>, 13, 8) >>,
            <<>>, 12, 4),
          FunctionDef(<<"unlink">>, <<Expr(List(<<Lit(PyInt(1))>>, 16, 8), 16, 8)>>, <<>>, 15, 4),
          AsyncFunctionDef(<<"write">>, <<Return(Name("vals", 18, 15), 18, 8)>>, <<>>, 17, 4),
          FunctionDef(<<"write">>, <<Return(Name("super", 20, 15), 20, 8)>>, <<>>, 19, 4) >>,
       1, 0) >>

SrcEmpty == <<>>

\* a complete manifest with nothing to report
ManifestOk ==
  << ManifestStmt(<<Key("name"), Key("version"), Key("author"), Key("license"), Key("development_status")>>,
                  <<Str("Sale"), Lit(GoodVersion), Lit(OcaAuthor), Str("AGPL-3"), Str("Beta")>>) >>

\* version and author missing, license not allowed
ManifestMissing ==
  << ManifestStmt(<<Key("license"), Key("name")>>, <<Str("MIT"), Str("Sale")>>) >>

\* author a list, version malformed, development_status not allowed
ManifestAuthorList ==
  << ManifestStmt(<<Key("name"), Key("version"), Key("author"), Key("license"), Key("development_status")>>,
                  <<Str("Sale"), Str("1.0"), List(<<Str("Acme"), Str("OCA")>>, 2, 4),
                    Str("LGPL-3"), Str("Foo")>>) >>

\* author a string without the required author
ManifestAuthorOther ==
  << ManifestStmt(<<Key("name"), Key("version"), Key("author"), Key("license")>>,
                  <<Str("Sale"), Lit(GoodVersion), Lit(PyStr(<<"Acme, ", "Other">>)), Str("GPL-3")>>) >>

\* author an empty list
ManifestAuthorEmptyList ==
  << ManifestStmt(<<Key("name"), Key("version"), Key("author"), Key("license")>>,
                  <<Str("Sale"), Lit(GoodVersion), List(<<>>, 2, 4), Str("GPL-3")>>) >>

\* author the number 7, license a list, version a number
ManifestAuthorNumber ==
  << ManifestStmt(<<Key("name"), Key("version"), Key("author"), Key("license")>>,
                  <<Str("Sale"), Lit(PyInt(16)), Lit(PyInt(7)), List(<<Str("AGPL-3")>>, 2, 4)>>) >>

\* values that are not literals: a call, a name, a list and a mapping that
\* contain some
ManifestNonLiteral ==
  << ManifestStmt(
       <<Key("name"), Key("version"), Key("author"), Key("license"), Key("depends"), Key("data")>>,
       <<Str("Sale"), Call(Name("get_version", 2, 4), <<>>, 2, 4), Name("AUTHOR", 2, 4), Str("AGPL-3"),
         List(<<Str("base"), Name("dep", 2, 4), Lit(PyInt(3))>>, 2, 4),
         Dict(<<Key("x"), Key("y")>>, <<Call(Name("f", 2, 4), <<>>, 2, 4), List(<<Lit(PyInt(1))>>, 2, 4)>>, 2, 4)>>) >>

\* keys that are not strings: 1, True, None, "", **extra, a name, 0
ManifestOddKeys ==
  << ManifestStmt(
       <<Lit(PyInt(1)), Lit(PyBool(TRUE)), Lit(PyNone), Key("name"), Lit(PyStr(<<>>)), NoKey,
         Name("k", 2, 4), Lit(PyInt(0))>>,
       <<Str("a"), Str("b"), Str("c"), Str("Sale"), Str("d"), Name("extra", 2, 4),
         Str("e"), Str("z")>>) >>

\* a list used as a key
ManifestListKey ==
  << ManifestStmt(<<Key("name"), List(<<Str("a")>>, 2, 4)>>, <<Str("Sale"), Lit(PyInt(1))>>) >>

\* a mapping used as a key
ManifestDictKey ==
  << ManifestStmt(<<Dict(<<Key("a")>>, <<Lit(PyInt(1))>>, 2, 4)>>, <<Lit(PyInt(2))>>) >>

\* an empty list used as a key, and the same key twice
ManifestEmptyListKey ==
  << ManifestStmt(<<List(<<>>, 2, 4), Key("name"), Key("name")>>, <<Lit(PyInt(1)), Str("Old"), Str("Sale")>>) >>

\* a list used as a key in a nested mapping
ManifestNestedListKey ==
  << ManifestStmt(<<Key("data")>>,
       <<Dict(<<List(<<Str("k")>>, 2, 4)>>, <<Lit(PyInt(1))>>, 2, 4)>>) >>

\* x = 1; a.b = {...}; v: dict = {...}; {"name": "First"}; y = {"author": [..]}
ManifestSeveral ==
  << Assign(<<Name("x", 1, 0)>>, Lit(PyInt(1)), 1, 0),
     Assign(<<Attribute(Name("a", 2, 0), "b", 2, 0)>>, Dict(<<Key("author")>>, <<Lit(PyInt(5))>>, 2, 6), 2, 0),
     AnnAssign(Name("v", 3, 0), Dict(<<Key("license")>>, <<Str("MIT")>>, 3, 10), 3, 0),
     Expr(Dict(<<Key("name")>>, <<Str("First")>>, 4, 0), 4, 0),
     Assign(<<Name("y", 5, 0)>>, Dict(<<Key("author")>>, <<List(<<Str("A")>>, 5, 15)>>, 5, 4), 5, 0) >>

\* m = n = {complete manifest}; {"license": "MIT"}
ManifestAssigned ==
  << Expr(Call(Name("setup", 1, 0), <<>>, 1, 0), 1, 0),
     Assign(<<Attribute(Name("a", 2, 0), "b", 2, 0), Name("m", 2, 6)>>,
            Dict(<<Key("name"), Key("version"), Key("author"), Key("license")>>,
                 <<Str("Sale"), Lit(GoodVersion), Lit(OcaAuthor), Str("AGPL-3")>>, 2, 10), 2, 0),
     Expr(Dict(<<Key("license")>>, <<Str("MIT")>>, 3, 0), 3, 0) >>

\* no mapping statement at all
ManifestAbsent ==
  << Assign(<<Name("x", 1, 0)>>, Lit(PyInt(1)), 1, 0),
     Expr(Call(Name("setup", 2, 0), <<>>, 2, 0), 2, 0) >>

ManifestEmptyDict == << ManifestStmt(<<>>, <<>>) >>

\* mappings that are no mapping statement: x = 1; a.b = {...};
\* v: dict = {...}; [{...}]; setup({...}); and print("a") on line 6
ManifestNearMisses ==
  << Assign(<<Name("x", 1, 0)>>, Lit(PyInt(1)), 1, 0),
     Assign(<<Attribute(Name("a", 2, 0), "b", 2, 0)>>, Dict(<<Key("name")>>, <<Str("Sale")>>, 2, 6), 2, 0),
     AnnAssign(Name("v", 3, 0), Dict(<<Key("license")>>, <<Str("MIT")>>, 3, 10), 3, 0),
     Expr(List(<<Dict(<<Key("name")>>, <<Str("Sale")>>, 4, 1)>>, 4, 0), 4, 0),
     Expr(Call(Name("setup", 5, 0), <<Dict(<<Key("name")>>, <<Str("Sale")>>, 5, 6)>>, 5, 0), 5, 0),
     Expr(Call(Name("print", 6, 0), <<Str("a")>>, 6, 0), 6, 0) >>

\* {"license": "MIT", "name": "Sale"} on line 1, print() on line 3
ManifestThenPrint ==
  ManifestMissing \o << Expr(Call(Name("print", 3, 0), <<>>, 3, 0), 3, 0) >>

NameManifest == <<"addons/", "sale", "/", "__manifest__.py">>

NameOpenerp == <<"addons/", "sale", "/", "__openerp__.py">>

NameModels == <<"addons/", "sale", "/", "models.py">>

NameBackup == <<"addons/", "sale", "/", "__manifest__.py", ".bak">>

NamePrefixed == <<"my", "__manifest__.py">>

\* the files under the directories /some/module and /some/broken
NameSomeModels == <<"/some/module/", "models.py">>

NameMigration == <<"/some/module/", "migrations", "/", "file.py">>

NameSomeManifest == <<"/some/module/", "__manifest__.py">>

NameVenv == <<"/some/module/", ".", "venv", "/lib/", "models.py">>

NameNotes == <<"/some/module/", "notes.txt">>

NameEggInfo == <<"/some/module/", "sale", ".egg-info", "/", "models.py">>

NameBrokenManifest == <<"/some/broken/", "static", "/", "__manifest__.py">>

NameBrokenModels == <<"/some/broken/", "models.py">>

\* a file on disk: whether open/read succeeds, whether ast.parse succeeds,
\* and the tree ast.parse returns
File(name, body) == [name |-> name, readable |-> TRUE, parses |-> TRUE, tree |-> Module(body)]

Unreadable(name) == [name |-> name, readable |-> FALSE, parses |-> FALSE, tree |-> Module(<<>>)]

SyntaxError(name) == [name |-> name, readable |-> TRUE, parses |-> FALSE, tree |-> Module(<<>>)]

Files ==
  << File(NameModels, SrcPrint), File(NameModels, SrcCursor), File(NameModels, SrcImport),
     File(NameModels, SrcMethod), File(NameModels, SrcCommitThenPrint), File(NameModels, SrcEmpty),
     File(NameManifest, SrcPrint), File(NameManifest, SrcEmpty),
     File(NameManifest, ManifestOk), File(NameManifest, ManifestMissing),
     File(NameManifest, ManifestAuthorList), File(NameManifest, ManifestAuthorOther),
     File(NameManifest, ManifestAuthorEmptyList), File(NameManifest, ManifestAuthorNumber),
     File(NameManifest, ManifestNonLiteral), File(NameManifest, ManifestOddKeys),
     File(NameManifest, ManifestListKey), File(NameManifest, ManifestDictKey),
     File(NameManifest, ManifestEmptyListKey), File(NameManifest, ManifestNestedListKey),
     File(NameManifest, ManifestSeveral), File(NameManifest, ManifestAssigned),
     File(NameManifest, ManifestAbsent), File(NameManifest, ManifestEmptyDict),
     File(NameOpenerp, ManifestMissing), File(NameModels, ManifestMissing),
     File(NameBackup, ManifestAuthorList), File(NamePrefixed, ManifestAuthorOther),
     File(NameModels, ManifestListKey),
     Unreadable(NameManifest), Unreadable(NameModels),
     SyntaxError(NameManifest), SyntaxError(NameModels),
     File(NameModels, SrcSql), File(NameModels, SrcSuper),
     File(NameSomeModels, SrcPrint), File(NameMigration, SrcCommitThenPrint),
     File(NameSomeManifest, ManifestMissing), File(NameVenv, SrcCursor),
     File(NameNotes, SrcPrint), File(NameEggInfo, SrcImport),
     File(NameBrokenManifest, ManifestListKey), File(NameBrokenModels, SrcCommitThenPrint),
     File(NameManifest, ManifestThenPrint), File(NameManifest, ManifestNearMisses) >>

FileIds == 1..Len(Files)

Codes ==
  {"OCA001", "OCA002", "OCA003", "OCA004", "OCA005", "OCA006", "OCA007",
   "OCA008", "OCA009", "OCA010", "OCA011", "OCA012", "OCA013", "OCA014"}

TwoRequiredAuthors == << <<"Odoo Community Association (OCA)">>, <<"Acme, ">> >>

\* the Configs a Linter is built with: the default, one code disabled, one
\* code enabled, enable and disable together, two required authors
Configs ==
  {MkConfig({}, {}, DefaultRequiredAuthors), MkConfig({}, {}, TwoRequiredAuthors)}
    \cup {MkConfig({}, {c}, DefaultRequiredAuthors) : c \in Codes}
    \cup {MkConfig({c}, {}, DefaultRequiredAuthors) : c \in Codes}
    \cup {MkConfig({"OCA009", "OCA012"}, {"OCA009"}, DefaultRequiredAuthors),
          MkConfig({"OCA001", "OCA002"}, {"OCA013"}, DefaultRequiredAuthors)}

(***************************************************************************)
(* The registry (visitor.py) and the Linter (linter.py)                    *)
(***************************************************************************)
\* the number of lint_file calls made on one Linter in a behaviour
MaxCalls == 3

VARIABLES
  config,            \* Linter.config
  linter_diagnostics,\* Linter.diagnostics
  pc,                \* position in lint_file: "idle", "parse", "visit", "manifest"
  file,              \* the file of the current or last lint_file call, 0 before the first
  tree,              \* lint_file's local tree: what ast.parse returned
  checkers,          \* lint_file's local list of checkers, each with its own diagnostics
  idx,               \* the position of the for loop over the checkers
  file_diagnostics,  \* lint_file's local result list
  manifest,          \* manifest_dict of the ManifestChecker being run
  returned,          \* what the last completed call returned
  outcome,           \* "none", "returned", "raised": how the last call ended
  calls,             \* the number of completed calls
  first_file,        \* history: the file of the first call, once noted
  first_outcome,     \* history: how that call ended
  first_returned,    \* history: what that call returned
  cli_pc,            \* position in run_check: "idle", "loop", "done"
  args_paths,        \* args.paths
  path_idx,          \* the position of the for loop over args.paths
  path_diagnostics,  \* run_check's local diagnostics: what the last lint_path call gave
  all_diagnostics,   \* run_check's local list
  analysed,          \* the files lint_file was called on, in order
  stdout,            \* what was printed to sys.stdout
  stderr,            \* what was printed to sys.stderr
  cli_outcome,       \* "none", "returned", "raised": how the call ended
  exit_code,         \* the value run_check returned
  directory_call,    \* the last direct lint_directory call and its result
  exclude_call       \* the last direct _should_exclude call and its result

vars ==
  <<config, linter_diagnostics, pc, file, tree, checkers, idx, file_diagnostics, manifest,
    returned, outcome, calls, first_file, first_outcome, first_returned,
    cli_pc, args_paths, path_idx, path_diagnostics, all_diagnostics, analysed, stdout, stderr,
    cli_outcome, exit_code, directory_call, exclude_call>>

history == <<first_file, first_outcome, first_returned>>

\* the state of a run_check call
run == <<cli_pc, args_paths, path_idx, path_diagnostics, all_diagnostics, analysed, stdout, stderr,
         cli_outcome, exit_code>>

\* the state the command line and the directory calls add to lint_file's
cli == <<run, directory_call, exclude_call>>

CodeCheckerClasses ==
  <<"PrintChecker", "CommitChecker", "SQLInjectionChecker", "ImportChecker",
    "MethodChecker", "TranslationChecker">>

\* BaseChecker.__init__: a checker starts with an empty list of its own
BaseCheckerInit(cls) == [cls |-> cls, diagnostics |-> <<>>]

\* a registry that looks for the manifest name anywhere in the path
GetAllCheckersContains(cfg, filename) ==
  LET checker_classes ==
        IF Contains(filename, <<"__manifest__.py">>) \/ Contains(filename, <<"__openerp__.py">>)
        THEN Append(CodeCheckerClasses, "ManifestChecker")
        ELSE CodeCheckerClasses
  IN [i \in 1..Len(checker_classes) |-> BaseCheckerInit(checker_classes[i])]

\* get_all_checkers
GetAllCheckers(cfg, filename) ==
  LET checker_classes ==
        IF EndsWith(filename, <<"__manifest__.py">>) \/ EndsWith(filename, <<"__openerp__.py">>)
        THEN Append(CodeCheckerClasses, "ManifestChecker")
        ELSE CodeCheckerClasses
  IN [i \in 1..Len(checker_classes) |-> BaseCheckerInit(checker_classes[i])]

\* lint_file's local tree before ast.parse has returned one
NoTree == NodeNoPos("NoTree", "", <<>>)

\* no direct call was made yet
NoCall == [made |-> FALSE]

\* Linter.__init__ with one of the Configs
InitWith(configs) ==
  /\ config \in configs
  /\ linter_diagnostics = <<>>
  /\ pc = "idle"
  /\ file = 0
  /\ tree = NoTree
  /\ checkers = <<>>
  /\ idx = 1
  /\ file_diagnostics = <<>>
  /\ manifest = PyNone
  /\ returned = <<>>
  /\ outcome = "none"
  /\ calls = 0
  /\ first_file = 0
  /\ first_outcome = "none"
  /\ first_returned = <<>>
  /\ cli_pc = "idle"
  /\ args_paths = <<>>
  /\ path_idx = 1
  /\ path_diagnostics = [outcome |-> "returned", returned |-> <<>>, analysed |-> <<>>]
  /\ all_diagnostics = <<>>
  /\ analysed = <<>>
  /\ stdout = <<>>
  /\ stderr = <<>>
  /\ cli_outcome = "none"
  /\ exit_code = 0
  /\ directory_call = NoCall
  /\ exclude_call = NoCall

Init == InitWith(Configs)

\* lint_file ends: it returns result, or an exception leaves it
Complete(how, result) ==
  /\ pc' = "idle"
  /\ outcome' = how
  /\ returned' = result
  /\ calls' = calls + 1

\* lint_file goes on at position next
Continue(next) ==
  /\ pc' = next
  /\ outcome' = "none"
  /\ returned' = <<>>
  /\ calls' = calls

\* lint_file(filepath), lines 22-26: open and read; [] on OSError or
\* UnicodeDecodeError
LintFileOpen(f) ==
  /\ pc = "idle"
  /\ calls < MaxCalls
  /\ file' = f
  /\ tree' = NoTree
  /\ checkers' = <<>>
  /\ idx' = 1
  /\ file_diagnostics' = <<>>
  /\ manifest' = PyNone
  /\ IF ~Files[f].readable THEN Complete("returned", <<>>) ELSE Continue("parse")
  /\ UNCHANGED <<config, linter_diagnostics, history, cli>>

\* a parse without the except clause
LintFileParseNoExcept ==
  /\ pc = "parse"
  /\ IF ~Files[file].parses
     THEN /\ Complete("raised", <<>>)
          /\ UNCHANGED <<tree, checkers>>
     ELSE /\ tree' = Files[file].tree
          /\ checkers' = GetAllCheckers(config, Files[file].name)
          /\ Continue("visit")
  /\ UNCHANGED <<config, linter_diagnostics, file, idx, file_diagnostics, manifest, history, cli>>

\* lint_file, lines 28-35: ast.parse; [] on SyntaxError; else the checkers
\* are constructed
LintFileParse ==
  /\ pc = "parse"
  /\ IF ~Files[file].parses
     THEN /\ Complete("returned", <<>>)
          /\ UNCHANGED <<tree, checkers>>
     ELSE /\ tree' = Files[file].tree
          /\ checkers' = GetAllCheckers(config, Files[file].name)
          /\ Continue("visit")
  /\ UNCHANGED <<config, linter_diagnostics, file, idx, file_diagnostics, manifest, history, cli>>

\* checkers whose diagnostics attribute is one list shared by all instances
VisitCheckerSharedList ==
  /\ pc = "visit"
  /\ idx <= Len(checkers)
  /\ checkers[idx].cls # "ManifestChecker"
  /\ LET found == checkers[idx].diagnostics
                    \o Visit(checkers[idx].cls, config, Files[file].name, tree)
     IN /\ checkers' = [i \in 1..Len(checkers) |-> [checkers[i] EXCEPT !.diagnostics = found]]
        /\ file_diagnostics' = file_diagnostics \o found
  /\ idx' = idx + 1
  /\ Continue("visit")
  /\ UNCHANGED <<config, linter_diagnostics, file, tree, manifest, history, cli>>

\* lint_file, lines 37-39, for one of the six code rules: checker.visit(tree)
\* appends to the checker's own list, which then extends file_diagnostics
VisitChecker ==
  /\ pc = "visit"
  /\ idx <= Len(checkers)
  /\ checkers[idx].cls # "ManifestChecker"
  /\ LET found == checkers[idx].diagnostics
                    \o Visit(checkers[idx].cls, config, Files[file].name, tree)
     IN /\ checkers' = [checkers EXCEPT ![idx].diagnostics = found]
        /\ file_diagnostics' = file_diagnostics \o found
  /\ idx' = idx + 1
  /\ Continue("visit")
  /\ UNCHANGED <<config, linter_diagnostics, file, tree, manifest, history, cli>>

\* ManifestChecker.visit_Module, line 220: the manifest dict is extracted; a
\* TypeError raised there leaves visit and lint_file
ManifestExtract ==
  /\ pc = "visit"
  /\ idx <= Len(checkers)
  /\ checkers[idx].cls = "ManifestChecker"
  /\ manifest' = ExtractManifestDict(tree)
  /\ IF manifest' = PyTypeError THEN Complete("raised", <<>>) ELSE Continue("manifest")
  /\ UNCHANGED <<config, linter_diagnostics, file, tree, checkers, idx, file_diagnostics, history, cli>>

\* a manifest rule that takes a missing mapping for an empty one
ManifestCheckNoneAsEmpty ==
  /\ pc = "manifest"
  /\ LET found == checkers[idx].diagnostics
                    \o ManifestChecks(config, Files[file].name,
                                      IF manifest = PyNone THEN PyDict(<<>>, <<>>) ELSE manifest, tree)
     IN /\ checkers' = [checkers EXCEPT ![idx].diagnostics = found]
        /\ file_diagnostics' = file_diagnostics \o found
  /\ idx' = idx + 1
  /\ Continue("visit")
  /\ UNCHANGED <<config, linter_diagnostics, file, tree, manifest, history, cli>>

\* ManifestChecker.visit_Module, lines 222-231, and lint_file line 39
ManifestCheck ==
  /\ pc = "manifest"
  /\ LET found == checkers[idx].diagnostics
                    \o (IF manifest = PyNone THEN <<>>
                        ELSE ManifestChecks(config, Files[file].name, manifest, tree))
     IN /\ checkers' = [checkers EXCEPT ![idx].diagnostics = found]
        /\ file_diagnostics' = file_diagnostics \o found
  /\ idx' = idx + 1
  /\ Continue("visit")
  /\ UNCHANGED <<config, linter_diagnostics, file, tree, manifest, history, cli>>

\* a Linter that collects into self.diagnostics and returns that list
LintFileReturnAccumulates ==
  /\ pc = "visit"
  /\ idx > Len(checkers)
  /\ linter_diagnostics' = linter_diagnostics \o file_diagnostics
  /\ Complete("returned", linter_diagnostics')
  /\ UNCHANGED <<config, file, tree, checkers, idx, file_diagnostics, manifest, history, cli>>

\* a lint_file that returns its findings ordered by line
LintFileReturnSortedByLine ==
  /\ pc = "visit"
  /\ idx > Len(checkers)
  /\ Complete("returned", SortSeq(file_diagnostics, LAMBDA d, e : d.line < e.line))
  /\ UNCHANGED <<config, linter_diagnostics, file, tree, checkers, idx, file_diagnostics, manifest, history, cli>>

\* lint_file, line 41: return file_diagnostics
LintFileReturn ==
  /\ pc = "visit"
  /\ idx > Len(checkers)
  /\ Complete("returned", file_diagnostics)
  /\ UNCHANGED <<config, linter_diagnostics, file, tree, checkers, idx, file_diagnostics, manifest, history, cli>>

Next ==
  \/ \E f \in FileIds : LintFileOpen(f)
  \/ LintFileParse
  \/ VisitChecker
  \/ ManifestExtract
  \/ ManifestCheck
  \/ LintFileReturn

Spec == Init /\ [][Next]_vars

\* the caller notes what the first call on a new Linter gave
NoteFirstCall ==
  /\ pc = "idle"
  /\ calls = 1
  /\ first_file = 0
  /\ first_file' = file
  /\ first_outcome' = outcome
  /\ first_returned' = returned
  /\ UNCHANGED <<config, linter_diagnostics, pc, file, tree, checkers, idx,
                 file_diagnostics,
                 manifest, returned, outcome, calls, cli>>

RepeatConfigs ==
  {MkConfig({}, {}, DefaultRequiredAuthors), MkConfig({}, {"OCA009"}, DefaultRequiredAuthors),
   MkConfig({"OCA001"}, {}, DefaultRequiredAuthors)}

InitRepeat == InitWith(RepeatConfigs)

NextRepeat == Next \/ NoteFirstCall

\* the same Linter, with the first call's result kept for comparison
SpecRepeat == InitRepeat /\ [][NextRepeat]_vars

(***************************************************************************)
(* Properties                                                              *)
(***************************************************************************)
\* every diagnostic list the program holds in this state
DiagnosticLists ==
  {checkers[i].diagnostics : i \in 1..Len(checkers)}
    \cup {file_diagnostics, returned, linter_diagnostics}

Range(seq) == {seq[i] : i \in 1..Len(seq)}

ManifestCodes == {"OCA009", "OCA010", "OCA011", "OCA012", "OCA013", "OCA014"}

\* a lint_file call has just ended
CallEnded == pc = "idle" /\ outcome # "none"

\* a loop's result with the findings of one more turn put in front
WithFound(found, rest) == [rest EXCEPT !.returned = found \o @]

\* the turn of lint_file's loop for the manifest rule, m the extracted
\* mapping: a TypeError leaves the loop, no mapping means no checks
ManifestTurn(cfg, f, m, rest) ==
  IF m = PyTypeError THEN [outcome |-> "raised", returned |-> <<>>]
  ELSE IF m = PyNone THEN rest
  ELSE WithFound(ManifestChecks(cfg, Files[f].name, m, Files[f].tree), rest)

\* one turn of lint_file's loop, rest being what the later turns give
CheckerTurn(cfg, f, cls, rest) ==
  IF cls = "ManifestChecker"
  THEN ManifestTurn(cfg, f, ExtractManifestDict(Files[f].tree), rest)
  ELSE WithFound(Visit(cls, cfg, Files[f].name, Files[f].tree), rest)

RECURSIVE RunCheckersFrom(_, _, _, _)
\* the for loop of lint_file over the checker classes, from class i on, as
\* one result: how it ends and the list it has built
RunCheckersFrom(cfg, f, classes, i) ==
  IF i > Len(classes) THEN [outcome |-> "returned", returned |-> <<>>]
  ELSE CheckerTurn(cfg, f, classes[i].cls, RunCheckersFrom(cfg, f, classes, i + 1))

\* Linter(cfg).lint_file(f) on a new Linter
LintFileResult(cfg, f) ==
  IF ~Files[f].readable \/ ~Files[f].parses THEN [outcome |-> "returned", returned |-> <<>>]
  ELSE RunCheckersFrom(cfg, f, GetAllCheckers(cfg, Files[f].name), 1)

(***************************************************************************)
(* Directories and paths (linter.py)                                       *)
(***************************************************************************)
\* the file of this name and content
FileOf(name, body) == CHOOSE f \in FileIds : Files[f] = File(name, body)

\* an entry of a directory tree: a file and the number of directories
\* between the directory and the file
Entry(f, depth) == [f |-> f, depth |-> depth]

\* a path on disk: a regular file, a directory with its tree in the order
\* the operating system lists it, a path that does not exist, or something
\* that exists and is neither (a socket, a device)
ExistingFile(f) == [kind |-> "file", f |-> f, entries |-> <<>>]

Directory(entries) == [kind |-> "dir", f |-> 0, entries |-> entries]

MissingPath == [kind |-> "missing", f |-> 0, entries |-> <<>>]

OtherPath == [kind |-> "other", f |-> 0, entries |-> <<>>]

\* /some/module
DirModule ==
  Directory(<< Entry(FileOf(NameMigration, SrcCommitThenPrint), 1),
               Entry(FileOf(NameSomeModels, SrcPrint), 0),
               Entry(FileOf(NameVenv, SrcCursor), 2),
               Entry(FileOf(NameSomeManifest, ManifestMissing), 0),
               Entry(FileOf(NameNotes, SrcPrint), 0),
               Entry(FileOf(NameEggInfo, SrcImport), 1) >>)

\* /some/broken: a manifest with a list as a key, listed before models.py
DirBroken ==
  Directory(<< Entry(FileOf(NameBrokenManifest, ManifestListKey), 1),
               Entry(FileOf(NameBrokenModels, SrcCommitThenPrint), 0) >>)

Paths ==
  << ExistingFile(FileOf(NameModels, SrcPrint)),
     ExistingFile(FileOf(NameModels, SrcCommitThenPrint)),
     ExistingFile(FileOf(NameModels, SrcEmpty)),
     ExistingFile(FileOf(NameManifest, ManifestListKey)),
     ExistingFile(FileOf(NameMigration, SrcCommitThenPrint)),
     DirModule, DirBroken, MissingPath, OtherPath >>

PathIds == 1..Len(Paths)

\* the last components that match *.py
PythonFileNames == {"models.py", "file.py", "__manifest__.py", "__openerp__.py"}

\* directory.glob("**/*.py" if recursive else "*.py"), lint_directory lines
\* 47-49: the files it yields, in the order of the listing
Glob(directory, recursive) ==
  LET found == SelectSeq(directory.entries,
                         LAMBDA e : /\ Files[e.f].name[Len(Files[e.f].name)] \in PythonFileNames
                                    /\ (recursive \/ e.depth = 0))
  IN [k \in 1..Len(found) |-> found[k].f]

\* Linter._should_exclude
ShouldExclude(cfg, filepath) ==
  \E i \in 1..Len(cfg.exclude) : Contains(filepath, cfg.exclude[i])

\* the result of the loop once lint_file has been called on file f: the
\* exception leaves the loop, a returned list extends the loop's list
AfterLintFile(f, diagnostics, rest) ==
  IF diagnostics.outcome = "raised"
  THEN [outcome |-> "raised", returned |-> <<>>, analysed |-> <<f>>]
  ELSE [rest EXCEPT !.returned = diagnostics.returned \o @, !.analysed = <<f>> \o @]

\* one turn of lint_directory's loop, rest being what the later turns give
DirectoryTurn(cfg, f, rest) ==
  IF ShouldExclude(cfg, Files[f].name) THEN rest
  ELSE AfterLintFile(f, LintFileResult(cfg, f), rest)

RECURSIVE LintDirectoryFrom(_, _, _)
\* the loop of lint_directory from file k of the glob on: how it ends, the
\* list it has built and the files lint_file was called on
LintDirectoryFrom(cfg, found, k) ==
  IF k > Len(found) THEN [outcome |-> "returned", returned |-> <<>>, analysed |-> <<>>]
  ELSE DirectoryTurn(cfg, found[k], LintDirectoryFrom(cfg, found, k + 1))

\* Linter.lint_directory
LintDirectory(cfg, directory, recursive) ==
  LintDirectoryFrom(cfg, Glob(directory, recursive), 1)

\* Linter.lint_path
LintPath(cfg, path) ==
  IF path.kind = "file"
  THEN AfterLintFile(path.f, LintFileResult(cfg, path.f),
                     [outcome |-> "returned", returned |-> <<>>, analysed |-> <<>>])
  ELSE IF path.kind = "dir" THEN LintDirectory(cfg, path, TRUE)
  ELSE [outcome |-> "returned", returned |-> <<>>, analysed |-> <<>>]

(***************************************************************************)
(* The formatters (formatters.py)                                          *)
(***************************************************************************)
\* the file names in the order of Python's string comparison
FilenameOrder ==
  << NameBrokenModels, NameBrokenManifest, NameVenv, NameSomeManifest, NameMigration,
     NameSomeModels, NameNotes, NameEggInfo, NameManifest, NameBackup, NameOpenerp,
     NameModels, NamePrefixed >>

FilenameRank(name) == CHOOSE r \in 1..Len(FilenameOrder) : FilenameOrder[r] = name

\* (d.filename, d.line, d.column) <= (e.filename, e.line, e.column)
SortKeyLessEq(d, e) ==
  \/ FilenameRank(d.filename) < FilenameRank(e.filename)
  \/ /\ d.filename = e.filename
     /\ \/ d.line < e.line
        \/ (d.line = e.line /\ d.column <= e.column)

\* where sorted(diagnostics, key=...) puts element i: after every element
\* with a smaller key and after the earlier elements with the same key
SortedPosition(ds, i) ==
  Cardinality({j \in 1..Len(ds) :
                 \/ ~SortKeyLessEq(ds[i], ds[j])
                 \/ (j <= i /\ SortKeyLessEq(ds[j], ds[i]))})

\* sorted(diagnostics, key=lambda d: (d.filename, d.line, d.column))
Sorted(ds) ==
  [p \in 1..Len(ds) |-> ds[CHOOSE i \in 1..Len(ds) : SortedPosition(ds, i) = p]]

\* one line or element of the output: what it is, the diagnostic it shows,
\* the level it shows and the count it shows
OutputLine(what, code, filename, line, column, level, count) ==
  [what |-> what, code |-> code, filename |-> filename, line |-> line, column |-> column,
   level |-> level, count |-> count]

Frame(what, count) == OutputLine(what, "", <<>>, 0, 0, "", count)

\* the lines of str(diag) for the diagnostics in this order
StrLines(ds) ==
  [k \in 1..Len(ds) |->
     OutputLine("str", ds[k].code, ds[k].filename, ds[k].line, ds[k].column, "", 0)]

\* TextFormatter.format; the empty string is <<>>
TextFormat(ds) ==
  IF ds = <<>> THEN <<>>
  ELSE StrLines(Sorted(ds)) \o <<Frame("", 0), Frame("Found error(s).", Len(ds))>>

\* JSONFormatter.format with Diagnostic.to_dict
JSONFormat(ds) ==
  <<Frame("[", 0)>>
    \o [k \in 1..Len(ds) |->
          OutputLine("to_dict", ds[k].code, ds[k].filename, ds[k].line, ds[k].column,
                     ds[k].level, 0)]
    \o <<Frame("]", 0)>>

\* SARIFFormatter._to_sarif_result: level_mapping
SarifLevel(level) ==
  CASE level = "error" -> "error"
    [] level = "warning" -> "warning"
    [] level \in {"info", "convention", "refactor"} -> "note"
    [] OTHER -> "warning"

\* SARIFFormatter.format
SARIFFormat(ds) ==
  <<Frame("runs", 0)>>
    \o [k \in 1..Len(ds) |->
          OutputLine("result", ds[k].code, ds[k].filename, ds[k].line, ds[k].column,
                     SarifLevel(ds[k].level), 0)]

\* GitHubFormatter.format
GitHubFormat(ds) ==
  [k \in 1..Len(ds) |->
     OutputLine("annotation", ds[k].code, ds[k].filename, ds[k].line, ds[k].column,
                IF ds[k].level = "error" THEN "error" ELSE "warning", 0)]

\* str.lower on the format names used here
Lower(format_name) == IF format_name = "TEXT" THEN "text" ELSE format_name

FormatterNames == {"text", "json", "sarif", "github"}

\* get_formatter(format_name).format(ds); called for a known name only
Format(format_name, ds) ==
  CASE Lower(format_name) = "text" -> TextFormat(ds)
    [] Lower(format_name) = "json" -> JSONFormat(ds)
    [] Lower(format_name) = "sarif" -> SARIFFormat(ds)
    [] Lower(format_name) = "github" -> GitHubFormat(ds)

(***************************************************************************)
(* run_check (cli.py) and the direct calls of the Linter's methods         *)
(***************************************************************************)
\* the number of paths given on the command line
MaxPaths == 2

\* the exclusion list of the test
TestExclude == << <<".", "git">>, S("__pycache__"), S("migrations") >>

\* the Configs run_check loads: the default, the formats, an unknown format,
\* the test's exclusions, the error codes disabled
CliConfigs ==
  {[MkConfig({}, {}, DefaultRequiredAuthors) EXCEPT !.output_format = fmt] :
     fmt \in {"text", "TEXT", "json", "sarif", "github", "xml"}}
    \cup {[MkConfig({}, {}, DefaultRequiredAuthors) EXCEPT !.exclude = TestExclude],
          MkConfig({}, {"OCA002", "OCA003"}, DefaultRequiredAuthors),
          [MkConfig({"OCA001", "OCA009"}, {}, DefaultRequiredAuthors)
             EXCEPT !.output_format = "github"]}

InitCli == InitWith(CliConfigs)

PathLists == UNION {[1..n -> PathIds] : n \in 1..MaxPaths}

\* run_check, lines 74-89: the Config is loaded, the Linter is built, the
\* list is empty
RunCheck(paths) ==
  /\ cli_pc = "idle"
  /\ cli_pc' = "loop"
  /\ args_paths' = paths
  /\ path_idx' = 1
  /\ all_diagnostics' = <<>>
  /\ analysed' = <<>>
  /\ UNCHANGED <<path_diagnostics, stdout, stderr, cli_outcome, exit_code, directory_call,
                 exclude_call>>
  /\ UNCHANGED <<config, linter_diagnostics, pc, file, tree, checkers, idx,
                 file_diagnostics,
                 manifest, returned, outcome, calls, history>>

\* a loop that skips a path that does not exist and goes on
RunCheckPathSkipsMissing ==
  /\ cli_pc = "loop"
  /\ path_idx <= Len(args_paths)
  /\ IF Paths[args_paths[path_idx]].kind = "missing"
     THEN /\ stderr' = Append(stderr, args_paths[path_idx])
          /\ path_idx' = path_idx + 1
          /\ UNCHANGED <<cli_pc, cli_outcome, exit_code, path_diagnostics, all_diagnostics, analysed>>
     ELSE /\ path_diagnostics' = LintPath(config, Paths[args_paths[path_idx]])
          /\ analysed' = analysed \o path_diagnostics'.analysed
          /\ IF path_diagnostics'.outcome = "raised"
             THEN /\ cli_pc' = "done"
                  /\ cli_outcome' = "raised"
                  /\ UNCHANGED <<path_idx, all_diagnostics>>
             ELSE /\ all_diagnostics' = all_diagnostics \o path_diagnostics'.returned
                  /\ path_idx' = path_idx + 1
                  /\ UNCHANGED <<cli_pc, cli_outcome>>
          /\ UNCHANGED <<stderr, exit_code>>
  /\ UNCHANGED <<args_paths, stdout, directory_call, exclude_call>>
  /\ UNCHANGED <<config, linter_diagnostics, pc, file, tree, checkers, idx,
                 file_diagnostics,
                 manifest, returned, outcome, calls, history>>

\* run_check, lines 90-97: one turn of the loop over args.paths; a path
\* that does not exist ends the call with 1, an exception of lint_path
\* leaves the call
RunCheckPath ==
  /\ cli_pc = "loop"
  /\ path_idx <= Len(args_paths)
  /\ IF Paths[args_paths[path_idx]].kind = "missing"
     THEN /\ stderr' = Append(stderr, args_paths[path_idx])
          /\ cli_pc' = "done"
          /\ cli_outcome' = "returned"
          /\ exit_code' = 1
          /\ UNCHANGED <<path_idx, path_diagnostics, all_diagnostics, analysed>>
     ELSE /\ path_diagnostics' = LintPath(config, Paths[args_paths[path_idx]])
          /\ analysed' = analysed \o path_diagnostics'.analysed
          /\ IF path_diagnostics'.outcome = "raised"
             THEN /\ cli_pc' = "done"
                  /\ cli_outcome' = "raised"
                  /\ UNCHANGED <<path_idx, all_diagnostics>>
             ELSE /\ all_diagnostics' = all_diagnostics \o path_diagnostics'.returned
                  /\ path_idx' = path_idx + 1
                  /\ UNCHANGED <<cli_pc, cli_outcome>>
          /\ UNCHANGED <<stderr, exit_code>>
  /\ UNCHANGED <<args_paths, stdout, directory_call, exclude_call>>
  /\ UNCHANGED <<config, linter_diagnostics, pc, file, tree, checkers, idx,
                 file_diagnostics,
                 manifest, returned, outcome, calls, history>>

\* run_check, lines 99-109: the output is formatted and printed if it is
\* not empty, the exit code is 1 if some diagnostic is an error; get_formatter
\* raises ValueError for an unknown format
RunCheckOutput ==
  /\ cli_pc = "loop"
  /\ path_idx > Len(args_paths)
  /\ cli_pc' = "done"
  /\ IF Lower(config.output_format) \notin FormatterNames
     THEN /\ cli_outcome' = "raised"
          /\ UNCHANGED <<stdout, exit_code>>
     ELSE LET output == Format(config.output_format, all_diagnostics)
              has_errors == \E k \in 1..Len(all_diagnostics) : all_diagnostics[k].level = "error"
          IN /\ stdout' = IF output # <<>> THEN Append(stdout, output) ELSE stdout
             /\ cli_outcome' = "returned"
             /\ exit_code' = IF has_errors THEN 1 ELSE 0
  /\ UNCHANGED <<args_paths, path_idx, path_diagnostics, all_diagnostics, analysed, stderr,
                 directory_call, exclude_call>>
  /\ UNCHANGED <<config, linter_diagnostics, pc, file, tree, checkers, idx,
                 file_diagnostics,
                 manifest, returned, outcome, calls, history>>

\* linter.lint_directory(directory, recursive), called directly
LintDirectoryCall(p, recursive) ==
  /\ cli_pc = "idle"
  /\ Paths[p].kind = "dir"
  /\ cli_pc' = "done"
  /\ directory_call' = [made |-> TRUE, directory |-> p, recursive |-> recursive,
                        result |-> LintDirectory(config, Paths[p], recursive)]
  /\ UNCHANGED <<args_paths, path_idx, path_diagnostics, all_diagnostics, analysed, stdout, stderr,
                 cli_outcome, exit_code, exclude_call>>
  /\ UNCHANGED <<config, linter_diagnostics, pc, file, tree, checkers, idx,
                 file_diagnostics,
                 manifest, returned, outcome, calls, history>>

\* linter._should_exclude(filepath), called directly, the file need not exist
ShouldExcludeCall(filepath) ==
  /\ cli_pc = "idle"
  /\ cli_pc' = "done"
  /\ exclude_call' = [made |-> TRUE, filepath |-> filepath,
                      returned |-> ShouldExclude(config, filepath)]
  /\ UNCHANGED <<args_paths, path_idx, path_diagnostics, all_diagnostics, analysed, stdout, stderr,
                 cli_outcome, exit_code, directory_call>>
  /\ UNCHANGED <<config, linter_diagnostics, pc, file, tree, checkers, idx,
                 file_diagnostics,
                 manifest, returned, outcome, calls, history>>

NextCli ==
  \/ \E paths \in PathLists : RunCheck(paths)
  \/ RunCheckPath
  \/ RunCheckOutput
  \/ \E p \in PathIds : \E recursive \in BOOLEAN : LintDirectoryCall(p, recursive)
  \/ \E filepath \in Range(FilenameOrder) : ShouldExcludeCall(filepath)

\* one process: a run_check call, or a direct call of a Linter method
SpecCli == InitCli /\ [][NextCli]_vars

\* the Config with enable and disable left at their defaults
Baseline(cfg) == [cfg EXCEPT !.enable = {}, !.disable = {}]

\* C1: no diagnostic list ever holds a code that is in disable, nor, when
\* enable is not empty, a code that is not in enable
OnlyEnabledCodesEmitted ==
  \A ds \in DiagnosticLists : \A d \in Range(ds) :
    /\ d.code \notin config.disable
    /\ (config.enable # {} => d.code \in config.enable)

\* a call returned findings, and without the filter the same file also
\* yields a finding whose code is disabled
OnlyEnabledCodesEmittedWitness ==
  /\ CallEnded
  /\ config.disable # {}
  /\ returned # <<>>
  /\ \E d \in Range(LintFileResult(Baseline(config), file).returned) : d.code \in config.disable

\* the findings of the baseline run that a Config's enable / disable keep
KeptByConfig(cfg, ds) ==
  SelectSeq(ds, LAMBDA d : (cfg.enable = {} \/ d.code \in cfg.enable) /\ d.code \notin cfg.disable)

\* C2: a run with Config(disable=[C]) returns the baseline run's findings
\* without those of code C, a run with Config(enable=[C]) returns exactly the
\* baseline findings of code C; nothing else is removed or added
FilteringEqualsBaselineMinusCode ==
  CallEnded =>
    LET base == LintFileResult(Baseline(config), file)
    IN /\ outcome = base.outcome
       /\ returned = KeptByConfig(config, base.returned)

\* OCA012 is disabled for a manifest whose author is a list: the return
\* after the suppressed emission is still taken
FilteringEqualsBaselineMinusCodeWitness ==
  /\ CallEnded
  /\ config.disable = {"OCA012"}
  /\ returned # <<>>
  /\ \E d \in Range(LintFileResult(Baseline(config), file).returned) : d.code = "OCA012"

\* C3: lint_file returns [] and raises nothing for a file that cannot be
\* read, for one that does not parse, and for an empty source; in the first
\* two cases no checker was constructed and no traversal ran
UnusableFileGivesEmptyList ==
  CallEnded =>
    /\ (~Files[file].readable \/ ~Files[file].parses)
         => (outcome = "returned" /\ returned = <<>> /\ checkers = <<>> /\ idx = 1
               /\ file_diagnostics = <<>>)
    /\ (Files[file].readable /\ Files[file].parses /\ Files[file].tree.a = <<>>)
         => (outcome = "returned" /\ returned = <<>>)

\* a call on a file with a syntax error has ended
UnusableFileGivesEmptyListWitness ==
  CallEnded /\ Files[file].readable /\ ~Files[file].parses

\* C4: every diagnostic has line >= 1 and column >= 0, and one made for a
\* node without a position (the Module the manifest rule passes) has line 1
\* and column 0
PositionsAreValid ==
  /\ \A ds \in DiagnosticLists : \A d \in Range(ds) : d.line >= 1 /\ d.column >= 0
  /\ \A i \in 1..Len(checkers) :
       checkers[i].cls = "ManifestChecker"
         => \A d \in Range(checkers[i].diagnostics) : d.line = 1 /\ d.column = 0

\* the manifest rule emitted for the Module node and went on to emit again
PositionsAreValidWitness ==
  /\ CallEnded
  /\ \E i \in 1..Len(checkers) :
       checkers[i].cls = "ManifestChecker" /\ Len(checkers[i].diagnostics) >= 2

\* C5: a later call on the file of the first call ends as the first call did
\* and returns the same list; the Linter holds no diagnostics; the checkers
\* not yet run have empty lists
RepeatedCallGivesSameResult ==
  /\ (CallEnded /\ first_file = file) => (outcome = first_outcome /\ returned = first_returned)
  /\ linter_diagnostics = <<>>
  /\ pc \in {"visit", "manifest"} => \A i \in idx..Len(checkers) : checkers[i].diagnostics = <<>>

\* the third call on a Linter is on the file of the first and finds something
RepeatedCallGivesSameResultWitness ==
  CallEnded /\ calls = 3 /\ first_file = file /\ returned # <<>>

\* a top-level statement that is a mapping literal: a mapping assigned to a
\* name, or a mapping standing alone
IsMappingStatement(item) ==
  \/ /\ item.kind = "Assign"
     /\ item.b[1].kind = "Dict"
     /\ \E t \in Range(item.a) : t.kind = "Name"
  \/ /\ item.kind = "Expr"
     /\ item.a[1].kind = "Dict"

MappingStatements(body) == {i \in 1..Len(body) : IsMappingStatement(body[i])}

\* the Dict node of the first mapping statement in document order
FirstMappingNode(body) ==
  LET first == CHOOSE i \in MappingStatements(body) : \A j \in MappingStatements(body) : i <= j
  IN IF body[first].kind = "Assign" THEN body[first].b[1] ELSE body[first].a[1]

\* entry i of a Dict node has a non-empty literal string as its key
StringKeyed(d, i) == d.a[i].kind = "Constant" /\ IsStr(d.a[i].v) /\ d.a[i].v.s # <<>>

\* no later entry of the Dict node has the same string key
LastWithKey(d, i) == \A j \in (i + 1)..Len(d.a) : ~(StringKeyed(d, j) /\ d.a[j].v = d.a[i].v)

IsLiteralNode(node) == node.kind \in {"Constant", "List", "Dict"}

\* the manifest rule holds an extracted mapping
ManifestExtracted == pc = "manifest" /\ manifest.t = "dict"

RECURSIVE Denotes(_, _)
\* value is what node stands for when a non-literal stands for None: a
\* constant for its value, a list elementwise, a mapping key by key
Denotes(node, value) ==
  CASE node.kind = "Constant" -> value = node.v
    [] node.kind = "List" ->
         /\ value.t = "list"
         /\ Len(value.items) = Len(node.a)
         /\ \A j \in 1..Len(node.a) : Denotes(node.a[j], value.items[j])
    [] node.kind = "Dict" ->
         /\ value.t = "dict"
         /\ \A i \in 1..Len(node.a) :
              (StringKeyed(node, i) /\ LastWithKey(node, i)) =>
                (HasKey(value, node.a[i].v) /\ Denotes(node.b[i], DictGet(value, node.a[i].v)))
    [] OTHER -> value = PyNone

ExtractedKeysAreStrings ==
  ManifestExtracted => \A k \in Range(manifest.keys) : IsStr(k)

\* C8: no rule ever raises: a lint_file call on a readable, parsable file
\* always ends by returning
NoRuleRaises == outcome # "raised"

\* C9: the extracted mapping is that of the first mapping statement in
\* document order, whatever comes before or after it; None when there is none
FirstMappingStatementWins ==
  (pc = "manifest" \/ (CallEnded /\ outcome = "raised")) =>
    manifest = IF MappingStatements(Files[file].tree.a) = {} THEN PyNone
               ELSE DictToPython(FirstMappingNode(Files[file].tree.a))

\* the module has several mapping statements and the first is not the first
\* statement
FirstMappingStatementWinsWitness ==
  /\ pc = "manifest"
  /\ Cardinality(MappingStatements(Files[file].tree.a)) >= 2
  /\ 1 \notin MappingStatements(Files[file].tree.a)
  /\ manifest # PyNone

ManifestSuffixes == {"__manifest__.py", "__openerp__.py"}

\* the file name ends with one of the two manifest names
HasManifestSuffix(name) == name # <<>> /\ name[Len(name)] \in ManifestSuffixes

\* C10: the checkers built for a file are the six code rules in the order
\* Print, Commit, SQLInjection, Import, Method, Translation, followed by the
\* manifest rule iff the file name ends with a manifest name; a file without
\* that suffix gets no OCA009-OCA014 finding
RegistrySelectsBySuffix ==
  /\ pc \in {"visit", "manifest"} =>
       [i \in 1..Len(checkers) |-> checkers[i].cls]
         = <<"PrintChecker", "CommitChecker", "SQLInjectionChecker", "ImportChecker",
             "MethodChecker", "TranslationChecker">>
           \o (IF HasManifestSuffix(Files[file].name) THEN <<"ManifestChecker">> ELSE <<>>)
  /\ (file # 0 /\ ~HasManifestSuffix(Files[file].name)) =>
       \A ds \in DiagnosticLists : \A d \in Range(ds) : d.code \notin ManifestCodes

\* a file whose path holds a manifest name that is not its suffix, and whose
\* content the manifest rule would report on, has been linted
RegistrySelectsBySuffixWitness ==
  /\ CallEnded
  /\ outcome = "returned"
  /\ ~HasManifestSuffix(Files[file].name)
  /\ Contains(Files[file].name, <<"__manifest__.py">>)
  /\ MappingStatements(Files[file].tree.a) # {}

(***************************************************************************)
(* The code rules, against the tree                                        *)
(***************************************************************************)
RECURSIVE Nodes(_), NodesOf(_, _)
\* every node of the tree under node, once, parents before children
Nodes(node) == <<node>> \o NodesOf(Children(node), 1)

NodesOf(children, i) ==
  IF i > Len(children) THEN <<>>
  ELSE Nodes(children[i]) \o NodesOf(children, i + 1)

\* the list of the checker of class cls, once lint_file has run it
RuleRan(i, cls) == i \in 1..Len(checkers) /\ i < idx /\ checkers[i].cls = cls

\* ds holds one finding of the code and level per node of nodes, at the
\* node's line and column, in this file, and nothing else
OnePerNode(ds, nodes, code, level) ==
  /\ Len(ds) = Len(nodes)
  /\ \A k \in 1..Len(ds) :
       /\ ds[k].code = code
       /\ ds[k].level = level
       /\ ds[k].filename = Files[file].name
       /\ ds[k].line = nodes[k].line
       /\ ds[k].column = nodes[k].col

IsPrintCall(n) == n.kind = "Call" /\ n.a[1].kind = "Name" /\ n.a[1].s = "print"

\* C11: with OCA001 enabled, the print rule's list holds exactly one OCA001
\* warning per call node of the tree whose callee is the bare name print, at
\* that call's line, at any nesting depth, and nothing for any other node;
\* a top-level print plus a print in a function gives exactly two
PrintRuleFindsEveryPrintCall ==
  \A i \in 1..Len(checkers) :
    (RuleRan(i, "PrintChecker") /\ IsCheckEnabled(config, "OCA001")) =>
      /\ OnePerNode(checkers[i].diagnostics,
                    SelectSeq(Nodes(Files[file].tree), IsPrintCall), "OCA001", "warning")
      /\ (Files[file].tree = Module(SrcPrint) => Len(checkers[i].diagnostics) = 2)

\* the rule has run on a tree where a print call is an argument of a print
\* call inside a function body, and has reported both
PrintRuleFindsEveryPrintCallWitness ==
  \E i \in 1..Len(checkers) :
    /\ RuleRan(i, "PrintChecker")
    /\ IsCheckEnabled(config, "OCA001")
    /\ Len(checkers[i].diagnostics) = 2
    /\ \E n \in Range(Nodes(Files[file].tree)) :
         /\ IsPrintCall(n)
         /\ \E k \in 1..Len(n.b) : IsPrintCall(n.b[k])
         /\ \E d \in Range(checkers[i].diagnostics) : d.line = n.line /\ d.column = n.col

\* the callee is attribute attr of a bare name that is one of cr, cursor, _cr
IsCursorMethodCall(n, attr) ==
  /\ n.kind = "Call"
  /\ n.a[1].kind = "Attribute"
  /\ n.a[1].s = attr
  /\ n.a[1].a[1].kind = "Name"
  /\ n.a[1].a[1].s \in {"cr", "cursor", "_cr"}

IsCommitCall(n) == IsCursorMethodCall(n, "commit")

\* C12: with OCA002 enabled, the commit rule's list holds exactly one OCA002
\* error per call of attribute commit on a bare name cr, cursor or _cr,
\* wherever the call is, and nothing for commit on any other receiver
CommitRuleFindsCursorCommits ==
  \A i \in 1..Len(checkers) :
    (RuleRan(i, "CommitChecker") /\ IsCheckEnabled(config, "OCA002")) =>
      OnePerNode(checkers[i].diagnostics,
                 SelectSeq(Nodes(Files[file].tree), IsCommitCall), "OCA002", "error")

\* the rule has run on a function body that holds cr.commit() and
\* self.env.cr.commit(), and has reported the first only
CommitRuleFindsCursorCommitsWitness ==
  \E i \in 1..Len(checkers) :
    /\ RuleRan(i, "CommitChecker")
    /\ IsCheckEnabled(config, "OCA002")
    /\ Len(checkers[i].diagnostics) = 1
    /\ \E f \in Range(Nodes(Files[file].tree)) :
         /\ f.kind = "FunctionDef"
         /\ \E n \in Range(Nodes(f)) : IsCommitCall(n)
         /\ \E n \in Range(Nodes(f)) :
              /\ n.kind = "Call" /\ n.a[1].kind = "Attribute" /\ n.a[1].s = "commit"
              /\ n.a[1].a[1].kind = "Attribute" /\ n.a[1].a[1].s = "cr"

\* the first positional argument is built by string formatting
FirstArgumentIsFormatted(n) ==
  /\ Len(n.b) >= 1
  /\ \/ n.b[1].kind = "BinOp"
     \/ n.b[1].kind = "JoinedStr"
     \/ (n.b[1].kind = "Call" /\ n.b[1].a[1].kind = "Attribute" /\ n.b[1].a[1].s = "format")

IsInjectionCall(n) == IsCursorMethodCall(n, "execute") /\ FirstArgumentIsFormatted(n)

IsSuperCall(n) == n.kind = "Call" /\ n.a[1].kind = "Name" /\ n.a[1].s = "super"

\* the nodes of the statements of a function's body
BodyNodes(fd) == UNION {Range(Nodes(fd.a[k])) : k \in 1..Len(fd.a)}

\* exactly one statement, which is pass or an expression statement of one
\* constant
BodyIsEmpty(fd) ==
  /\ Len(fd.a) = 1
  /\ \/ fd.a[1].kind = "Pass"
     \/ (fd.a[1].kind = "Expr" /\ fd.a[1].a[1].kind = "Constant")

NamedLikeOverride(fd) == fd.q \in {<<"create">>, <<"write">>, <<"copy">>, <<"unlink">>}

\* the OCA007 findings of the method rule's list
MissingSuperFindings(i) == SelectSeq(checkers[i].diagnostics, LAMBDA d : d.code = "OCA007")

\* C14 as stated: with OCA007 enabled, one OCA007 warning for a function
\* definition named create, write, copy or unlink if and only if no call of
\* the bare name super occurs anywhere in its body and the body is not
\* empty; fails for a create whose only super() call is in its decorator
MissingSuperDecidedByBody ==
  \A i \in 1..Len(checkers) :
    (RuleRan(i, "MethodChecker") /\ IsCheckEnabled(config, "OCA007")) =>
      OnePerNode(MissingSuperFindings(i),
                 SelectSeq(Nodes(Files[file].tree),
                           LAMBDA n : /\ n.kind = "FunctionDef"
                                      /\ NamedLikeOverride(n)
                                      /\ ~\E c \in BodyNodes(n) : IsSuperCall(c)
                                      /\ ~BodyIsEmpty(n)),
                 "OCA007", "warning")

\* C14: with OCA007 enabled, one OCA007 warning for a def (not an async def)
\* named create, write, copy or unlink if and only if no call of the bare
\* name super occurs anywhere in the definition, its decorators and nested
\* functions included, and the body is not a single pass or a single
\* constant expression; nothing for any other name
MissingSuperDecidedByDefinition ==
  \A i \in 1..Len(checkers) :
    (RuleRan(i, "MethodChecker") /\ IsCheckEnabled(config, "OCA007")) =>
      OnePerNode(MissingSuperFindings(i),
                 SelectSeq(Nodes(Files[file].tree),
                           LAMBDA n : /\ n.kind = "FunctionDef"
                                      /\ NamedLikeOverride(n)
                                      /\ ~\E c \in Range(Nodes(n)) : IsSuperCall(c)
                                      /\ ~BodyIsEmpty(n)),
                 "OCA007", "warning")

\* the rule has run on a class with a create whose super() call is in the
\* decorator only, which it has not reported, while it has reported others
MissingSuperDecidedByDefinitionWitness ==
  \E i \in 1..Len(checkers) :
    /\ RuleRan(i, "MethodChecker")
    /\ IsCheckEnabled(config, "OCA007")
    /\ MissingSuperFindings(i) # <<>>
    /\ \E n \in Range(Nodes(Files[file].tree)) :
         /\ n.kind = "FunctionDef"
         /\ NamedLikeOverride(n)
         /\ \E k \in 1..Len(n.b) : \E c \in Range(Nodes(n.b[k])) : IsSuperCall(c)
         /\ ~\E c \in BodyNodes(n) : IsSuperCall(c)
         /\ ~BodyIsEmpty(n)
         /\ ~\E d \in Range(MissingSuperFindings(i)) : d.line = n.line

(***************************************************************************)
(* The manifest rule, against the source mapping                           *)
(***************************************************************************)
\* the manifest rule has run its checks on an extracted mapping
ManifestRuleRan(i) == RuleRan(i, "ManifestChecker") /\ manifest.t = "dict"

\* the findings of one code in the manifest rule's list
ManifestFindings(i, code) == SelectSeq(checkers[i].diagnostics, LAMBDA d : d.code = code)

\* the source mapping has an entry whose key is the string constant key
KeyInSource(d, key) ==
  \E k \in 1..Len(d.a) : d.a[k].kind = "Constant" /\ d.a[k].v = PyStr(<<key>>)

\* C15: for a manifest whose mapping was extracted and with OCA009 enabled,
\* the manifest rule's list holds exactly one OCA009 convention finding for
\* each of name, version, author, license that the source mapping lacks, and
\* none for a key it has, wherever the key stands in the source; a file
\* without version and author gives exactly two
OneFindingPerMissingRequiredKey ==
  \A i \in 1..Len(checkers) :
    (ManifestRuleRan(i) /\ IsCheckEnabled(config, "OCA009")) =>
      LET d == FirstMappingNode(Files[file].tree.a)
          missing == SelectSeq(<<"name", "version", "author", "license">>,
                               LAMBDA key : ~KeyInSource(d, key))
          found == ManifestFindings(i, "OCA009")
      IN /\ Len(found) = Len(missing)
         /\ \A k \in 1..Len(found) :
              /\ found[k].level = "convention"
              /\ found[k].message = <<"Missing required key in manifest file", missing[k]>>
         /\ (Files[file].tree = Module(ManifestMissing) => Len(found) = 2)

\* the rule has run on a mapping that has license before name and lacks
\* version and author, and has reported exactly these two
OneFindingPerMissingRequiredKeyWitness ==
  \E i \in 1..Len(checkers) :
    /\ ManifestRuleRan(i)
    /\ IsCheckEnabled(config, "OCA009")
    /\ LET d == FirstMappingNode(Files[file].tree.a)
           found == ManifestFindings(i, "OCA009")
       IN /\ Len(d.a) = 2
          /\ d.a[1].v = PyStr(<<"license">>)
          /\ d.a[2].v = PyStr(<<"name">>)
          /\ Len(found) = 2
          /\ found[1].message[2] = "version"
          /\ found[2].message[2] = "author"

\* the entries of the source mapping whose key is the string constant author
AuthorEntries(d) ==
  {k \in 1..Len(d.a) : d.a[k].kind = "Constant" /\ d.a[k].v = PyStr(<<"author">>)}

\* the value node of the author entry that counts, the last one
AuthorNode(d) == d.b[CHOOSE k \in AuthorEntries(d) : \A j \in AuthorEntries(d) : j <= k]

\* a list, a mapping, a number or a boolean, empty and zero included
IsNonStringLiteral(node) ==
  \/ node.kind \in {"List", "Dict"}
  \/ (node.kind = "Constant" /\ node.v.t \in {"int", "bool"})

IsStringLiteral(node) == node.kind = "Constant" /\ node.v.t = "str"

\* C16 as stated: with OCA012 enabled, whenever the author key is in the
\* mapping with a literal value that is not a string, the empty list and 0
\* included, the manifest rule emits one OCA012 error, and it emits none
\* when the author is a string; fails for "author": []
NonStringAuthorIsAnError ==
  \A i \in 1..Len(checkers) :
    (/\ ManifestRuleRan(i)
     /\ IsCheckEnabled(config, "OCA012")
     /\ AuthorEntries(FirstMappingNode(Files[file].tree.a)) # {}) =>
      LET author == AuthorNode(FirstMappingNode(Files[file].tree.a))
          found == ManifestFindings(i, "OCA012")
      IN /\ IsNonStringLiteral(author) => (Len(found) = 1 /\ found[1].level = "error")
         /\ IsStringLiteral(author) => found = <<>>

\* C17 as stated: for an author that is a non-empty string, the manifest
\* rule emits OCA013, at most once, if and only if the string contains none
\* of the configured required authors; fails with two required authors for
\* an author that contains one of them
MissingAuthorMeansNoneContained ==
  \A i \in 1..Len(checkers) :
    (/\ ManifestRuleRan(i)
     /\ IsCheckEnabled(config, "OCA013")
     /\ AuthorEntries(FirstMappingNode(Files[file].tree.a)) # {}
     /\ IsStringLiteral(AuthorNode(FirstMappingNode(Files[file].tree.a)))
     /\ AuthorNode(FirstMappingNode(Files[file].tree.a)).v.s # <<>>) =>
      LET author == AuthorNode(FirstMappingNode(Files[file].tree.a)).v.s
          required == config.manifest_required_authors
          found == ManifestFindings(i, "OCA013")
      IN /\ Len(found) <= 1
         /\ Len(found) = 1 <=> (\A r \in 1..Len(required) : ~Contains(author, required[r]))

(***************************************************************************)
(* The command line and the directory walk                                 *)
(***************************************************************************)
\* a run_check call has ended
RunEnded == cli_pc = "done" /\ args_paths # <<>>

\* the positions of args.paths that name a path that does not exist
MissingPositions == {k \in 1..Len(args_paths) : Paths[args_paths[k]].kind = "missing"}

\* C18: when every input path exists and the output format is known,
\* run_check returns 1 if some diagnostic collected over all paths has
\* severity error and 0 otherwise; fails when lint_path raises the TypeError
\* of C8, which leaves run_check without a return value
ExitCodeFollowsErrorFindings ==
  (/\ RunEnded
   /\ MissingPositions = {}
   /\ Lower(config.output_format) \in FormatterNames) =>
    /\ cli_outcome = "returned"
    /\ exit_code = IF \E d \in Range(all_diagnostics) : d.level = "error" THEN 1 ELSE 0

RECURSIVE AnalysedBefore(_)
\* the files lint_file is called on for the paths before position k
AnalysedBefore(k) ==
  IF k <= 1 THEN <<>>
  ELSE AnalysedBefore(k - 1) \o LintPath(config, Paths[args_paths[k - 1]]).analysed

IsPrefix(short, long) == Len(short) <= Len(long) /\ short = SubSeq(long, 1, Len(short))

\* C19: run_check goes through the paths in order; at the first path that
\* does not exist it prints an error to the error stream and returns 1 at
\* once: the loop never gets past that path, no file of a later path is
\* analysed, nothing is printed to the output, whatever was collected from
\* the earlier paths, and the call returns in no other way
MissingPathAbortsRun ==
  (cli_pc \in {"loop", "done"} /\ MissingPositions # {}) =>
    LET first == CHOOSE k \in MissingPositions : \A j \in MissingPositions : k <= j
    IN /\ path_idx <= first
       /\ IsPrefix(analysed, AnalysedBefore(first))
       /\ stdout = <<>>
       /\ (cli_pc = "loop" => stderr = <<>>)
       /\ (cli_pc = "done" /\ cli_outcome = "returned") =>
            /\ path_idx = first
            /\ exit_code = 1
            /\ stderr = <<args_paths[first]>>
            /\ analysed = AnalysedBefore(first)

\* the run has collected findings, an error among them, from a first path,
\* has met a second path that does not exist, and has returned 1 with one
\* line on the error stream and nothing on the output
MissingPathAbortsRunWitness ==
  /\ RunEnded
  /\ cli_outcome = "returned"
  /\ Len(args_paths) = 2
  /\ MissingPositions = {2}
  /\ \E d \in Range(all_diagnostics) : d.level = "error"
  /\ analysed # <<>>
  /\ exit_code = 1
  /\ stdout = <<>>
  /\ Len(stderr) = 1

\* the files of a directory tree that match the glob and that no exclusion
\* pattern occurs in, in the order of the listing
NonExcludedFiles(directory, recursive) ==
  LET kept == SelectSeq(directory.entries,
                LAMBDA e : /\ Files[e.f].name[Len(Files[e.f].name)] \in PythonFileNames
                           /\ (recursive \/ e.depth = 0)
                           /\ \A i \in 1..Len(config.exclude) :
                                ~Contains(Files[e.f].name, config.exclude[i]))
  IN [k \in 1..Len(kept) |-> kept[k].f]

RECURSIVE ConcatenatedFindings(_, _)
\* the per-file diagnostics of files k.. of fs, one after the other
ConcatenatedFindings(fs, k) ==
  IF k > Len(fs) THEN <<>>
  ELSE LintFileResult(config, fs[k]).returned \o ConcatenatedFindings(fs, k + 1)

\* C20: lint_directory analyses exactly the files the glob yields
\* (**/*.py when recursive, *.py otherwise) in whose path string no
\* exclusion pattern occurs, and returns their per-file diagnostics one
\* after the other; _should_exclude is true for
\* /some/module/migrations/file.py with the pattern migrations and false for
\* /some/module/models.py; fails when a file raises the TypeError of C8
DirectoryResultCoversNonExcluded ==
  /\ directory_call.made =>
       LET fs == NonExcludedFiles(Paths[directory_call.directory], directory_call.recursive)
       IN /\ directory_call.result.analysed = fs
          /\ directory_call.result.outcome = "returned"
          /\ directory_call.result.returned = ConcatenatedFindings(fs, 1)
  /\ (exclude_call.made /\ config.exclude = TestExclude) =>
       /\ exclude_call.filepath = NameMigration => exclude_call.returned
       /\ exclude_call.filepath = NameSomeModels => ~exclude_call.returned
(***************************************************************************)
(* Frame of a rule, order of the result, files without a mapping           *)
(***************************************************************************)
\* lint_file is in its loop with a rule still to run or running
RuleRuns == pc \in {"visit", "manifest"} /\ idx <= Len(checkers)

\* what the rule of class cls finds when it is the only rule run, on a new
\* instance, on the file of the current call
RuleAlone(cls) ==
  CheckerTurn(config, file, cls, [outcome |-> "returned", returned |-> <<>>]).returned

\* every rule that has run holds the findings it gives when run alone
RanRulesHoldOwnFindings ==
  \A i \in 1..Len(checkers) :
    RuleRan(i, checkers[i].cls) => checkers[i].diagnostics = RuleAlone(checkers[i].cls)

\* a step of a rule leaves the Config, the tree, the Linter's list and the
\* other rule instances as they were
RuleStepFrame ==
  RuleRuns =>
    /\ config' = config
    /\ tree' = tree
    /\ tree = Files[file].tree
    /\ linter_diagnostics' = linter_diagnostics
    /\ Len(checkers') = Len(checkers)
    /\ checkers'[idx].cls = checkers[idx].cls
    /\ \A j \in 1..Len(checkers) : j # idx => checkers'[j] = checkers[j]

\* C21: running a rule's visit(tree) and add_diagnostic changes only that
\* rule instance's own diagnostic list: the Config, the parsed tree and the
\* lists of the other rule instances of the same file stay as they were, so
\* each rule that has run holds exactly what it finds when run alone
RuleChangesOnlyItsOwnList ==
  /\ []RanRulesHoldOwnFindings
  /\ [][RuleStepFrame]_vars

\* two rules have run one after the other on the same tree, each has
\* findings in its own list, and a third is about to run
RuleChangesOnlyItsOwnListWitness ==
  /\ pc = "visit"
  /\ idx = 3
  /\ RuleRuns
  /\ tree = Module(SrcCommitThenPrint)
  /\ Len(checkers[1].diagnostics) = 1
  /\ Len(checkers[2].diagnostics) = 1
  /\ checkers[1].diagnostics # checkers[2].diagnostics
\* the codes each rule class emits
RuleCodes(cls) ==
  CASE cls = "PrintChecker" -> {"OCA001"}
    [] cls = "CommitChecker" -> {"OCA002"}
    [] cls = "SQLInjectionChecker" -> {"OCA003"}
    [] cls = "ImportChecker" -> {"OCA004", "OCA005"}
    [] cls = "MethodChecker" -> {"OCA006", "OCA007"}
    [] cls = "TranslationChecker" -> {"OCA008"}
    [] cls = "ManifestChecker" -> ManifestCodes

\* the place of the rule that emits the code in the registry
RuleRank(code) ==
  CHOOSE r \in 1..7 : code \in RuleCodes(Append(CodeCheckerClasses, "ManifestChecker")[r])

RECURSIVE ListsFrom(_, _)
\* the lists of the rule instances i.. of cs, one after the other
ListsFrom(cs, i) ==
  IF i > Len(cs) THEN <<>> ELSE cs[i].diagnostics \o ListsFrom(cs, i + 1)

\* a lint_file call has returned the list built by its loop
LoopReturned ==
  CallEnded /\ outcome = "returned" /\ Files[file].readable /\ Files[file].parses

\* C22: the list lint_file returns is each rule's list, one after the
\* other in registry order (Print, Commit, SQLInjection, Import, Method,
\* Translation, then Manifest), each list as the rule's traversal built it;
\* the list is not sorted by position: a finding of an earlier rule comes
\* before every finding of a later rule, whatever their lines
ResultIsRuleListsInRegistryOrder ==
  LoopReturned =>
    /\ returned = ListsFrom(checkers, 1)
    /\ \A i \in 1..Len(checkers) :
         /\ checkers[i].diagnostics = RuleAlone(checkers[i].cls)
         /\ \A d \in Range(checkers[i].diagnostics) : d.code \in RuleCodes(checkers[i].cls)
    /\ \A j, k \in 1..Len(returned) :
         j < k => RuleRank(returned[j].code) <= RuleRank(returned[k].code)

\* a manifest file with a mapping on line 1 and a print call on line 3: the
\* print rule's finding on line 3 comes first, the manifest rule's findings
\* on line 1 after it
ResultIsRuleListsInRegistryOrderWitness ==
  /\ LoopReturned
  /\ tree = Module(ManifestThenPrint)
  /\ Len(returned) >= 2
  /\ returned[1].code = "OCA001"
  /\ returned[1].line = 3
  /\ returned[Len(returned)].code \in ManifestCodes
  /\ returned[Len(returned)].line = 1
\* the file of the current call is a declaration file that was read and
\* parsed and has no mapping statement at top level
DeclarationWithoutMapping ==
  /\ file # 0
  /\ HasManifestSuffix(Files[file].name)
  /\ Files[file].readable
  /\ Files[file].parses
  /\ MappingStatements(Files[file].tree.a) = {}

\* C23: for a declaration file in which no top-level statement is a mapping
\* literal (assigned to a name or standing alone), the extraction gives
\* None and the manifest rule emits nothing: no OCA009 for the four required
\* keys and no OCA010-OCA014, in its own list or in any list of the call
NoMappingMeansNoManifestFinding ==
  DeclarationWithoutMapping =>
    /\ outcome # "raised"
    /\ pc = "manifest" => manifest = PyNone
    /\ \A i \in 1..Len(checkers) :
         RuleRan(i, "ManifestChecker") => manifest = PyNone /\ checkers[i].diagnostics = <<>>
    /\ \A ds \in DiagnosticLists : \A d \in Range(ds) : d.code \notin ManifestCodes

\* the manifest rule has run, with OCA009 enabled, on a declaration file
\* whose mappings are assigned to an attribute, annotated, inside a list and
\* passed to a call; the call returned the print rule's finding alone
NoMappingMeansNoManifestFindingWitness ==
  /\ DeclarationWithoutMapping
  /\ LoopReturned
  /\ tree = Module(ManifestNearMisses)
  /\ RuleRan(7, "ManifestChecker")
  /\ IsCheckEnabled(config, "OCA009")
  /\ IsCheckEnabled(config, "OCA010")
  /\ Len(returned) = 1
  /\ returned[1].code = "OCA001"
====
